---- MODULE Spec2Model ----
(***************************************************************************)
(* NanoTrade: the results checker (check_results.py), the wire-word        *)
(* encoder, the scalers, df_to_stimulus, the file writers, main and the    *)
(* checker it writes (generate_stimuli.py), the scalers and candle rule of *)
(* finnhub_fetch.py and the live-feed test (test/test.py), as state        *)
(* machines.                                                               *)
(*                                                                         *)
(* A label is the sequence of its "_"-separated words, so that the "_ML"   *)
(* suffix test and the suffix removal are computed, not looked up:         *)
(*   "FLASH_CRASH_ML" = <<"FLASH", "CRASH", "ML">>.                        *)
(* An optional value (Python None or a value) is <<>> or <<v>>.            *)
(***************************************************************************)
EXTENDS Integers, Sequences, FiniteSets, TLC

VARIABLES
    pc,             \* position in main() / check()
    argc,           \* len(sys.argv)
    golden_exists,  \* os.path.exists(golden_path)
    result_exists,  \* os.path.exists(result_path)
    saw_rule_line,  \* the transcript read so far has a [FIRED_RULE_MASK] line
    saw_ml_line,    \* the transcript read so far has a [FIRED_ML_MASK] line
    expected,       \* parse_golden's expected list
    rule_mask,      \* parse_result's rule_mask (None or an integer)
    ml_mask,        \* parse_result's ml_mask (None or an integer)
    idx,            \* index of the next label of the for loop in check()
    passed,         \* check(): passed list
    failed,         \* check(): failed list
    opened,         \* the files opened so far
    out,            \* what check()/main() printed, in order
    score,          \* check(): (n_passed, total) of the Score line
    ret,            \* check()'s return value (None until it returns)
    exit_code,      \* the status main() exited with (None while running)
    enc_op,         \* encoder: the last encoder function applied
    enc_in,         \* encoder: its input
    cycles,         \* encoder: the (ui_in, uio_in) words produced
    sc_op,          \* scalers: the last scaling function applied
    sc_in,          \* scalers: its input
    sc_out,         \* scalers: its return value
    st_pc,          \* df_to_stimulus: position
    df,             \* df_to_stimulus: the bars (Open, High, Low, Close, Volume)
    scaled,         \* df_to_stimulus: the scaled columns and buy pressures
    bar_i,          \* df_to_stimulus: the loop variable i (0-based)
    all_cycles,     \* df_to_stimulus: all_cycles
    markers,        \* df_to_stimulus: markers, as (cycle_idx, bar_idx)
    wr_pc,          \* file writer: position
    wr_in,          \* file writer: the function called and its argument
    wr_lines,       \* file writer: the lines the function writes, in order
    wr_n,           \* file writer: how many of them have been written
    fs,             \* file writer: the target file (None if absent, or lines)
    transcript,     \* parse_result on a given file: the lines of the file
    em_pc,          \* embedded checker: position
    em_argc,        \* embedded checker: len(sys.argv)
    em_golden,      \* embedded checker: the lines of the golden file
    em_expected,    \* embedded checker: expected
    em_log,         \* embedded checker: the lines of the result file
    em_line,        \* embedded checker: lines of the result file scanned
    fired,          \* embedded checker: fired
    em_exit,        \* embedded checker: exit status (None while running)
    gm_pc,          \* generate_stimuli.main: position
    gm_stocks,      \* generate_stimuli.main: the stocks of SCENARIOS
    gm_i,           \* generate_stimuli.main: stocks processed
    files,          \* generate_stimuli.main: who wrote each file last
    run_script,     \* generate_stimuli.main: checker commands of the script
    demo_pc,        \* realtime_ws_demo: position
    ws_pc,          \* ws_thread_coinbase_exchange: position
    q_items,        \* realtime_ws_demo: the items in the queue q
    stop_evt,       \* realtime_ws_demo: stop_evt.is_set()
    n_msgs,         \* realtime_ws_demo: n_msgs
    got,            \* realtime_ws_demo: got
    first_data,     \* realtime_ws_demo: first_data
    elapsed,        \* realtime_ws_demo: the startup timeout has passed
    events,         \* realtime_ws_demo: the input events driven, in order
    taken           \* realtime_ws_demo: the items taken off the queue

vars == <<pc, argc, golden_exists, result_exists, saw_rule_line, saw_ml_line, expected, rule_mask, ml_mask, idx,
          passed, failed, opened, out, score, ret, exit_code, enc_op, enc_in,
          cycles, sc_op, sc_in, sc_out, st_pc, df, scaled, bar_i, all_cycles,
          markers, wr_pc, wr_in, wr_lines, wr_n, fs, transcript, em_pc, em_argc,
          em_golden, em_expected, em_log, em_line, fired, em_exit, gm_pc,
          gm_stocks, gm_i, files, run_script, demo_pc, ws_pc, q_items, stop_evt,
          n_msgs, got, first_data, elapsed, events, taken>>

verifier_vars == <<pc, argc, golden_exists, result_exists, saw_rule_line, saw_ml_line, expected,
                   rule_mask, ml_mask, idx, passed, failed, opened, out,
                   score, ret, exit_code>>

encoder_vars == <<enc_op, enc_in, cycles>>

scale_vars == <<sc_op, sc_in, sc_out>>

stim_vars == <<st_pc, df, scaled, bar_i, all_cycles, markers>>

write_vars == <<wr_pc, wr_in, wr_lines, wr_n, fs>>

parse_vars == <<transcript>>

embed_vars == <<em_pc, em_argc, em_golden, em_expected, em_log, em_line, fired, em_exit>>

main_vars == <<gm_pc, gm_stocks, gm_i, files, run_script>>

demo_vars == <<demo_pc, ws_pc, q_items, stop_evt, n_msgs, got, first_data, elapsed,
               events, taken>>

tool_vars == <<parse_vars, embed_vars, main_vars, demo_vars>>

generator_vars == <<scale_vars, stim_vars, write_vars, tool_vars>>

---------------------------------------------------------------------------
(* Bounds of the model *)

MaxArgc == 4            \* len(sys.argv) ranges over 1..MaxArgc
MaxExpected == 2        \* labels on an EXPECTED= line

---------------------------------------------------------------------------
(* Optional values *)

None == <<>>
Some(v) == <<v>>
ValueOf(o) == o[1]

---------------------------------------------------------------------------
(* check_results.py: the label -> bit tables *)

RULE_BITS ==
    (<<"PRICE", "SPIKE">> :> 0) @@ (<<"VOLUME", "DRY">> :> 1) @@
    (<<"VOLUME", "SURGE">> :> 2) @@ (<<"TRADE", "VELOCITY">> :> 3) @@
    (<<"ORDER", "IMBALANCE">> :> 4) @@ (<<"SPREAD", "WIDENING">> :> 5) @@
    (<<"VOLATILITY">> :> 6) @@ (<<"FLASH", "CRASH">> :> 7)

ML_BITS ==
    (<<"NORMAL">> :> 0) @@ (<<"PRICE", "SPIKE">> :> 1) @@
    (<<"VOLUME", "SURGE">> :> 2) @@ (<<"FLASH", "CRASH">> :> 3) @@
    (<<"ORDER", "IMBALANCE">> :> 4) @@ (<<"QUOTE", "STUFFING">> :> 5)

\* mask & (1 << b), as a truth value, for a non-negative mask
BitSet(mask, b) == (mask \div (2 ^ b)) % 2 = 1

\* alert.endswith("_ML")
EndsWithML(alert) == Len(alert) >= 2 /\ alert[Len(alert)] = "ML"

\* alert[:-3] of a label that ends with "_ML"
StripML(alert) == SubSeq(alert, 1, Len(alert) - 1)

---------------------------------------------------------------------------
(* Inputs *)

AlertLabel == DOMAIN RULE_BITS \cup DOMAIN ML_BITS

\* a label of neither table
UnknownLabel == <<"HALT">>

\* the empty label of a bare "EXPECTED=" line
EmptyLabel == <<"">>

NoneLabel == <<"NONE">>

Labels ==
    AlertLabel \cup {Append(a, "ML") : a \in AlertLabel}
        \cup {NoneLabel, EmptyLabel, UnknownLabel, Append(UnknownLabel, "ML")}

\* one label of each kind: in both tables, in the rule table only, in the ML
\* table only, in neither; each with and without the suffix
ClassLabels ==
    {<<"FLASH", "CRASH">>, <<"FLASH", "CRASH", "ML">>,
     <<"VOLATILITY">>, <<"VOLATILITY", "ML">>,
     <<"QUOTE", "STUFFING">>, <<"QUOTE", "STUFFING", "ML">>,
     NoneLabel, UnknownLabel, Append(UnknownLabel, "ML")}

SeqsUpTo(S, n) == UNION {[1..k -> S] : k \in 0..n}

\* the label lists of an EXPECTED= line: every single label, and the lists
\* of up to MaxExpected labels, one label of each kind
ExpectedInputs ==
    {<<a>> : a \in Labels} \cup SeqsUpTo(ClassLabels, MaxExpected)

\* the golden file's lines, after strip(): key and, for EXPECTED=, the items
GoldenLines ==
    [key : {"EXPECTED="}, items : ExpectedInputs \ {<<>>}]
        \cup [key : {"TICKER=", "DATE=", "//"}, items : {<<>>}]

\* the width the testbench prints a mask with
WordBits == 8

\* binary digit strings, most significant digit first
AllDigits(d) == [i \in 1..WordBits |-> d]
OneHot(b) == [i \in 1..WordBits |-> IF i = WordBits - b THEN 1 ELSE 0]
AllBut(b) == [i \in 1..WordBits |-> IF i = WordBits - b THEN 0 ELSE 1]

\* no bit, every bit, one bit, every bit but the top one
MaskDigits ==
    {AllDigits(0), AllDigits(1), AllBut(WordBits - 1)}
        \cup {OneHot(b) : b \in 0..(WordBits - 1)}

\* the transcript's lines, after strip(): first word and last word
ResultLines ==
    [head : {"[FIRED_RULE_MASK]", "[FIRED_ML_MASK]"}, last : MaskDigits]
        \cup [head : {"[ALERT]"}, last : {AllDigits(0), AllDigits(1)}]

---------------------------------------------------------------------------
(* parse_result: int(s, 2) *)

RECURSIVE IntBase2(_)
IntBase2(digits) ==
    IF digits = <<>> THEN 0
    ELSE 2 * IntBase2(SubSeq(digits, 1, Len(digits) - 1)) + digits[Len(digits)]

---------------------------------------------------------------------------
(* main(), lines 139-151: the argument and file checks before check() *)

main_start ==
    /\ pc = "main"
    /\ IF argc # 3
       THEN /\ out' = Append(out, "Usage")
            /\ exit_code' = Some(1)
            /\ pc' = "exited"
       ELSE IF ~golden_exists
       THEN /\ out' = Append(out, "[ERROR] Golden file not found")
            /\ exit_code' = Some(1)
            /\ pc' = "exited"
       ELSE IF ~result_exists
       THEN /\ out' = Append(out, "[ERROR] Result file not found")
            /\ exit_code' = Some(1)
            /\ pc' = "exited"
       ELSE /\ pc' = "parse_golden"
            /\ UNCHANGED <<out, exit_code>>
    /\ UNCHANGED <<argc, golden_exists, result_exists, saw_rule_line, saw_ml_line, expected,
                   rule_mask, ml_mask, idx, passed, failed, opened, score,
                   ret>>
    /\ UNCHANGED <<encoder_vars, generator_vars>>

(* open(path) of a file: an absent file raises, and the uncaught exception *)
(* ends the process with status 1                                          *)
OpenFile(name, exists, next) ==
    IF exists
    THEN /\ opened' = opened \cup {name}
         /\ pc' = next
         /\ UNCHANGED <<out, exit_code>>
    ELSE /\ out' = Append(out, "FileNotFoundError")
         /\ exit_code' = Some(1)
         /\ pc' = "exited"
         /\ UNCHANGED opened

(* parse_golden, lines 40-43 *)
parse_golden_open ==
    /\ pc = "parse_golden"
    /\ OpenFile("golden", golden_exists, "parse_golden_loop")
    /\ UNCHANGED <<argc, golden_exists, result_exists, saw_rule_line, saw_ml_line, expected,
                   rule_mask, ml_mask, idx, passed, failed, score, ret>>
    /\ UNCHANGED <<encoder_vars, generator_vars>>

(* parse_golden, lines 44-51: one iteration of `for line in f` *)
parse_golden_line ==
    /\ pc = "parse_golden_loop"
    /\ \E line \in GoldenLines :
          expected' = IF line.key = "EXPECTED=" THEN line.items ELSE expected
    /\ UNCHANGED <<pc, argc, golden_exists, result_exists, saw_rule_line, saw_ml_line, rule_mask, ml_mask, idx,
                   passed, failed, opened, out, score, ret, exit_code>>
    /\ UNCHANGED <<encoder_vars, generator_vars>>

(* parse_golden, line 52: end of file, return *)
parse_golden_return ==
    /\ pc = "parse_golden_loop"
    /\ pc' = "parse_result"
    /\ UNCHANGED <<argc, golden_exists, result_exists, saw_rule_line, saw_ml_line, expected,
                   rule_mask, ml_mask, idx, passed, failed, opened, out,
                   score, ret, exit_code>>
    /\ UNCHANGED <<encoder_vars, generator_vars>>

\* the variants that start from an all-zero mask
InitRuleMaskZero == Some(0)
InitMlMaskZero == Some(0)

\* parse_result, lines 56-57: the masks before any line is read
InitRuleMask == None
InitMlMask == None

(* parse_result, lines 56-58 *)
parse_result_open ==
    /\ pc = "parse_result"
    /\ rule_mask' = InitRuleMask
    /\ ml_mask' = InitMlMask
    /\ OpenFile("result", result_exists, "parse_result_loop")
    /\ UNCHANGED <<argc, golden_exists, result_exists, saw_rule_line, saw_ml_line, expected, idx,
                   passed, failed, score, ret>>
    /\ UNCHANGED <<encoder_vars, generator_vars>>

\* the variant that keeps the first mask line of each kind
ParseResultLineFirst(line, masks) ==
    IF line.head = "[FIRED_RULE_MASK]" /\ masks.rule = None
    THEN [masks EXCEPT !.rule = Some(IntBase2(line.last))]
    ELSE IF line.head = "[FIRED_ML_MASK]" /\ masks.ml = None
    THEN [masks EXCEPT !.ml = Some(IntBase2(line.last))]
    ELSE masks

\* parse_result, lines 60-64: the masks after one more line
ParseResultLine(line, masks) ==
    IF line.head = "[FIRED_RULE_MASK]"
    THEN [masks EXCEPT !.rule = Some(IntBase2(line.last))]
    ELSE IF line.head = "[FIRED_ML_MASK]"
    THEN [masks EXCEPT !.ml = Some(IntBase2(line.last))]
    ELSE masks

(* parse_result, lines 59-64: one iteration of `for line in f` *)
parse_result_line ==
    /\ pc = "parse_result_loop"
    /\ \E line \in ResultLines :
          LET after == ParseResultLine(line, [rule |-> rule_mask, ml |-> ml_mask])
          IN  /\ rule_mask' = after.rule
              /\ ml_mask' = after.ml
              /\ saw_rule_line' = (saw_rule_line \/ line.head = "[FIRED_RULE_MASK]")
              /\ saw_ml_line' = (saw_ml_line \/ line.head = "[FIRED_ML_MASK]")
    /\ UNCHANGED <<pc, argc, golden_exists, result_exists, expected, idx, passed, failed, opened, out, score, ret,
                   exit_code>>
    /\ UNCHANGED <<encoder_vars, generator_vars>>

(* parse_result, line 65: end of file, return *)
parse_result_return ==
    /\ pc = "parse_result_loop"
    /\ pc' = "check"
    /\ UNCHANGED <<argc, golden_exists, result_exists, saw_rule_line, saw_ml_line, expected,
                   rule_mask, ml_mask, idx, passed, failed, opened, out,
                   score, ret, exit_code>>
    /\ UNCHANGED <<encoder_vars, generator_vars>>

---------------------------------------------------------------------------
(* check(), lines 72-135 *)

\* entries of the passed list: alert, f"{base}(ML)", f"{alert}(?)"
Entry(name, note) == [name |-> name, note |-> note]

\* what one label adds to the passed and failed lists
Verdict(p, f) == [passed |-> p, failed |-> f]

\* the strict variant: any fired rule fails a NONE golden
check_none_strict(rmask) == rmask = 0

\* lines 84-92: the golden is exactly NONE; TRUE for PASS
check_none(rmask) == ~BitSet(rmask, RULE_BITS[<<"FLASH", "CRASH">>])

\* lines 99-108: a label with the _ML suffix
check_ml_alert(alert, mmask) ==
    LET base == StripML(alert)
    IN  IF base \in DOMAIN ML_BITS /\ mmask # None
        THEN IF BitSet(ValueOf(mmask), ML_BITS[base])
             THEN Verdict(<<Entry(base, "(ML)")>>, <<>>)
             ELSE Verdict(<<>>, <<base>>)
        ELSE Verdict(<<Entry(alert, "(?)")>>, <<>>)

\* the variant that misses a label of no table
check_rule_alert_strict(alert, rmask, mmask) ==
    IF alert \in DOMAIN RULE_BITS /\ BitSet(rmask, RULE_BITS[alert])
    THEN Verdict(<<Entry(alert, "")>>, <<>>)
    ELSE Verdict(<<>>, <<alert>>)

\* the variant without the `continue` of line 121
check_rule_alert_fallthrough(alert, rmask, mmask) ==
    IF alert \in DOMAIN RULE_BITS
    THEN IF BitSet(rmask, RULE_BITS[alert])
         THEN Verdict(<<Entry(alert, "")>>, <<>>)
         ELSE IF /\ alert \in DOMAIN ML_BITS
                 /\ mmask # None
                 /\ BitSet(ValueOf(mmask), ML_BITS[alert])
         THEN Verdict(<<Entry(alert, "(ML)")>>, <<alert>>)
         ELSE Verdict(<<>>, <<alert>>)
    ELSE Verdict(<<Entry(alert, "(?)")>>, <<>>)

\* lines 111-124: a label without the suffix
check_rule_alert(alert, rmask, mmask) ==
    IF alert \in DOMAIN RULE_BITS
    THEN IF BitSet(rmask, RULE_BITS[alert])
         THEN Verdict(<<Entry(alert, "")>>, <<>>)
         ELSE IF /\ alert \in DOMAIN ML_BITS
                 /\ mmask # None
                 /\ BitSet(ValueOf(mmask), ML_BITS[alert])
         THEN Verdict(<<Entry(alert, "(ML)")>>, <<>>)
         ELSE Verdict(<<>>, <<alert>>)
    ELSE Verdict(<<Entry(alert, "(?)")>>, <<>>)

\* lines 97-124: the body of `for alert in expected`
check_alert(alert, rmask, mmask) ==
    IF EndsWithML(alert)
    THEN check_ml_alert(alert, mmask)
    ELSE check_rule_alert(alert, rmask, mmask)

\* the variant that fails a run with nothing to compare
check_verdict_nonempty(n_passed, total) == total > 0 /\ n_passed = total

\* lines 131-135: the verdict from the two counts
check_verdict(n_passed, total) == n_passed = total

(* check(), lines 72-92: the missing mask, the header, the NONE golden *)
check_start ==
    /\ pc = "check"
    /\ IF rule_mask = None
       THEN /\ out' = Append(out, "[ERROR] Could not parse FIRED_RULE_MASK")
            /\ ret' = Some(FALSE)
            /\ pc' = "main_exit"
       ELSE IF expected = <<NoneLabel>>
       THEN /\ out' = out \o <<"Results Check",
                                IF check_none(ValueOf(rule_mask))
                                THEN "[PASS] Quiet day"
                                ELSE "[FAIL] Expected NONE but FLASH_CRASH fired">>
            /\ ret' = Some(check_none(ValueOf(rule_mask)))
            /\ pc' = "main_exit"
       ELSE /\ out' = Append(out, "Results Check")
            /\ pc' = "check_loop"
            /\ UNCHANGED ret
    /\ UNCHANGED <<argc, golden_exists, result_exists, saw_rule_line, saw_ml_line, expected,
                   rule_mask, ml_mask, idx, passed, failed, opened, score,
                   exit_code>>
    /\ UNCHANGED <<encoder_vars, generator_vars>>

(* check(), lines 97-124: one iteration of `for alert in expected` *)
check_label ==
    /\ pc = "check_loop"
    /\ idx <= Len(expected)
    /\ LET v == check_alert(expected[idx], ValueOf(rule_mask), ml_mask)
       IN  /\ passed' = passed \o v.passed
           /\ failed' = failed \o v.failed
    /\ idx' = idx + 1
    /\ UNCHANGED <<pc, argc, golden_exists, result_exists, saw_rule_line, saw_ml_line, expected,
                   rule_mask, ml_mask, opened, out, score, ret, exit_code>>
    /\ UNCHANGED <<encoder_vars, generator_vars>>

(* check(), lines 126-135: the report and the return value *)
check_score ==
    /\ pc = "check_loop"
    /\ idx > Len(expected)
    /\ score' = Some(<<Len(passed), Len(expected)>>)
    /\ out' = Append(out, IF check_verdict(Len(passed), Len(expected))
                          THEN "Score [PASS]" ELSE "Score [FAIL]")
    /\ ret' = Some(check_verdict(Len(passed), Len(expected)))
    /\ pc' = "main_exit"
    /\ UNCHANGED <<argc, golden_exists, result_exists, saw_rule_line, saw_ml_line, expected,
                   rule_mask, ml_mask, idx, passed, failed, opened,
                   exit_code>>
    /\ UNCHANGED <<encoder_vars, generator_vars>>

\* the variant sys.exit(ok): True exits 1, False exits 0
ExitStatusBool(ok) == IF ok THEN 1 ELSE 0

\* main(), line 154: the exit status for check()'s return value
ExitStatus(ok) == IF ok THEN 0 ELSE 1

(* main(), lines 153-154 *)
main_exit ==
    /\ pc = "main_exit"
    /\ exit_code' = Some(ExitStatus(ValueOf(ret)))
    /\ pc' = "exited"
    /\ UNCHANGED <<argc, golden_exists, result_exists, saw_rule_line, saw_ml_line, expected,
                   rule_mask, ml_mask, idx, passed, failed, opened, out,
                   score, ret>>
    /\ UNCHANGED <<encoder_vars, generator_vars>>

---------------------------------------------------------------------------
(* generate_stimuli.py: the wire-word encoders, lines 189-239 *)

\* a wire word is the pair (ui_in, uio_in)
Word(ui, uio) == <<ui, uio>>

\* the variant that masks to the width instead of clipping
np_clip_wrap(x, lo, hi) == x % (hi + 1)

\* np.clip(x, lo, hi) of an integer
np_clip(x, lo, hi) == IF x < lo THEN lo ELSE IF x > hi THEN hi ELSE x

\* x & 0x3F and x >> 6 of a non-negative integer
Low6(x) == x % 64
Shr6(x) == x \div 64

\* lines 200-203
encode_price(price_12bit) ==
    LET p == np_clip(price_12bit, 0, 4095)
    IN  Word(0 * 64 + Low6(p), Low6(Shr6(p)))

\* lines 212-215
encode_volume(vol_12bit) ==
    LET v == np_clip(vol_12bit, 0, 4095)
    IN  Word(1 * 64 + Low6(v), Low6(Shr6(v)))

\* lines 224-225
encode_buy(qty_6bit) == Word(2 * 64 + np_clip(qty_6bit, 0, 63), 0)

\* lines 234-235
encode_sell(qty_6bit) == Word(3 * 64 + np_clip(qty_6bit, 0, 63), 0)

\* line 239
encode_idle == Word(0, 0)

---------------------------------------------------------------------------
(* generate_stimuli.py: bar_to_cycles, lines 294-333 *)

\* the denominator of the buy pressures tried: pressure = num / PressureDen
PressureDen == 12

\* round(num / den) of Python 3 for num >= 0: halves go to the even integer
RoundHalfEven(num, den) ==
    LET q == num \div den
        r == num % den
    IN  IF 2 * r < den THEN q
        ELSE IF 2 * r > den THEN q + 1
        ELSE IF q % 2 = 0 THEN q ELSE q + 1

\* the variant that splits twelve order words
n_buys_twelve(num, den) == RoundHalfEven(num * 12, den)

\* line 321: int(round(buy_pressure * 6)), buy_pressure = num / den
n_buys(num, den) == RoundHalfEven(num * 6, den)

\* line 322
n_sells(buys) == 6 - buys

\* [w for _ in range(n)]: range of a negative number is empty
Repeat(w, n) == [i \in 1..n |-> w]

\* lines 310-333
bar_to_cycles(open_p, high_p, low_p, close_p, volume, num, den) ==
    LET qty == 10
        buys == n_buys(num, den)
    IN  <<encode_price(open_p), encode_price(high_p),
          encode_price(low_p), encode_price(close_p)>>
            \o Repeat(encode_volume(volume), 2)
            \o Repeat(encode_buy(qty), buys)
            \o Repeat(encode_sell(qty), n_sells(buys))
            \o Repeat(encode_idle, 4)

\* how far outside the payload range the encoder inputs reach
EncSlack == 70

EncInputs == (0 - EncSlack)..(4095 + EncSlack)

\* scaled prices and volumes of the bars tried
BarPrices == {1, 200, 1000}
BarVolumes == {1, 100, 3000}

\* the buy pressures tried, as numerators over PressureDen: 0 to 2
PressureNums == 0..(2 * PressureDen)

(* one call of an encoder function on a fresh input *)
call_encode_price ==
    /\ enc_op = "none"
    /\ \E x \in EncInputs :
          /\ enc_in' = <<x>>
          /\ cycles' = <<encode_price(x)>>
    /\ enc_op' = "encode_price"
    /\ UNCHANGED <<verifier_vars, generator_vars>>

call_encode_volume ==
    /\ enc_op = "none"
    /\ \E x \in EncInputs :
          /\ enc_in' = <<x>>
          /\ cycles' = <<encode_volume(x)>>
    /\ enc_op' = "encode_volume"
    /\ UNCHANGED <<verifier_vars, generator_vars>>

call_encode_buy ==
    /\ enc_op = "none"
    /\ \E x \in EncInputs :
          /\ enc_in' = <<x>>
          /\ cycles' = <<encode_buy(x)>>
    /\ enc_op' = "encode_buy"
    /\ UNCHANGED <<verifier_vars, generator_vars>>

call_encode_sell ==
    /\ enc_op = "none"
    /\ \E x \in EncInputs :
          /\ enc_in' = <<x>>
          /\ cycles' = <<encode_sell(x)>>
    /\ enc_op' = "encode_sell"
    /\ UNCHANGED <<verifier_vars, generator_vars>>

call_encode_idle ==
    /\ enc_op = "none"
    /\ enc_in' = <<>>
    /\ cycles' = <<encode_idle>>
    /\ enc_op' = "encode_idle"
    /\ UNCHANGED <<verifier_vars, generator_vars>>

call_bar_to_cycles ==
    /\ enc_op = "none"
    /\ \E o \in BarPrices, h \in BarPrices, l \in BarPrices, c \in BarPrices,
          v \in BarVolumes, num \in PressureNums :
          /\ enc_in' = <<o, h, l, c, v, num>>
          /\ cycles' = bar_to_cycles(o, h, l, c, v, num, PressureDen)
    /\ enc_op' = "bar_to_cycles"
    /\ UNCHANGED <<verifier_vars, generator_vars>>

---------------------------------------------------------------------------
(* generate_stimuli.py: scale_price and scale_volume, lines 248-286.       *)
(* A series is a sequence of integers. The quotients are exact rationals,  *)
(* truncated toward zero as astype(int) and int() truncate.                *)

Abs(x) == IF x < 0 THEN 0 - x ELSE x

Min(a, b) == IF a < b THEN a ELSE b

Max(a, b) == IF a > b THEN a ELSE b

\* int(num / den) for den # 0
TruncDiv(num, den) ==
    LET q == Abs(num) \div Abs(den)
    IN  IF (num < 0) # (den < 0) THEN 0 - q ELSE q

Range(s) == {s[i] : i \in 1..Len(s)}

\* prices.min(), prices.max()
SeqMin(s) == CHOOSE x \in Range(s) : \A y \in Range(s) : x <= y
SeqMax(s) == CHOOSE x \in Range(s) : \A y \in Range(s) : x >= y

\* the k-th smallest element of s (k in 1..Len(s))
KthSmallest(s, k) ==
    CHOOSE x \in Range(s) :
        /\ Cardinality({i \in 1..Len(s) : s[i] < x}) < k
        /\ Cardinality({i \in 1..Len(s) : s[i] <= x}) >= k

\* twice np.median(volumes): the middle element, or the mean of the two
\* middle elements of an even-length series
DoubleMedian(s) ==
    LET n == Len(s)
    IN  IF n % 2 = 1
        THEN 2 * KthSmallest(s, (n + 1) \div 2)
        ELSE KthSmallest(s, n \div 2) + KthSmallest(s, n \div 2 + 1)

target_baseline == 200
target_range == 800
target_normal == 100
target_max == 3000

\* line 266
p_range(p_min, p_max) == IF p_max > p_min THEN p_max - p_min ELSE 1

scale_price_inverted(prices) ==
    LET p_min == SeqMin(prices)
        p_max == SeqMax(prices)
        rng == p_range(p_min, p_max)
    IN  [i \in 1..Len(prices) |->
            np_clip(TruncDiv(target_baseline * rng
                                + (p_max - prices[i]) * target_range, rng),
                    1, 4090)]
\* lines 263-270: target_baseline + (prices - p_min) / p_range * target_range,
\* clipped to [1, 4090] and truncated
scale_price(prices) ==
    LET p_min == SeqMin(prices)
        p_max == SeqMax(prices)
        rng == p_range(p_min, p_max)
    IN  [i \in 1..Len(prices) |->
            np_clip(TruncDiv(target_baseline * rng
                                + (prices[i] - p_min) * target_range, rng),
                    1, 4090)]

\* lines 280-283: twice v_median, with a zero median replaced by 1.0
v_median2(volumes) ==
    IF DoubleMedian(volumes) = 0 THEN 2 ELSE DoubleMedian(volumes)

scale_volume_unclipped(volumes) ==
    [i \in 1..Len(volumes) |->
        TruncDiv(volumes[i] * 2 * target_normal, v_median2(volumes))]
\* lines 280-286: (volumes / v_median) * target_normal, clipped to
\* [1, target_max] and truncated
scale_volume(volumes) ==
    [i \in 1..Len(volumes) |->
        np_clip(TruncDiv(volumes[i] * 2 * target_normal, v_median2(volumes)),
                1, target_max)]

---------------------------------------------------------------------------
(* finnhub_fetch.py: scale_price and scale_volume, lines 37-47.            *)
(* A dollar price is given in cents, so dollar_price = cents / 100.        *)

\* lines 37-43; dollar_price / 4 * 4 is dollar_price again
finnhub_scale_price(cents) ==
    IF cents > 100000
    THEN Min(4095, TruncDiv(cents, 100))
    ELSE IF cents > 50000
         THEN Min(4095, TruncDiv(cents * 2, 100))
         ELSE Min(4095, TruncDiv(cents * 4, 100))

\* lines 45-47, with the default scale_factor = 0.05 = 5 / 100
finnhub_scale_volume(shares) == Min(4095, TruncDiv(shares * 5, 100))

(* finnhub_fetch.py: candles_to_verilog_tasks, lines 132-149: the order    *)
(* quantities of one candle with open o, close c and previous close        *)
(* prev_close (integers in one unit)                                       *)

\* line 131 and int(abs(pct_chg) * k) of lines 137-141
int_abs_pct_chg(k, c, prev_close) ==
    IF prev_close > 0
    THEN TruncDiv(Abs(c - prev_close) * 100 * k, prev_close)
    ELSE 0

\* lines 135-149
buy_qty(o, c, prev_close) ==
    IF c > o THEN Min(63, 10 + int_abs_pct_chg(5, c, prev_close))
    ELSE IF c < o THEN Max(1, 8 - int_abs_pct_chg(2, c, prev_close))
    ELSE 8

sell_qty_unfloored(o, c, prev_close) ==
    IF c > o THEN 8 - int_abs_pct_chg(2, c, prev_close)
    ELSE IF c < o THEN Min(63, 10 + int_abs_pct_chg(5, c, prev_close))
    ELSE 8
\* lines 135-149
sell_qty(o, c, prev_close) ==
    IF c > o THEN Max(1, 8 - int_abs_pct_chg(2, c, prev_close))
    ELSE IF c < o THEN Min(63, 10 + int_abs_pct_chg(5, c, prev_close))
    ELSE 8

---------------------------------------------------------------------------
(* The scaling functions, called on their own *)

MaxSeries == 3          \* longest series handed to a scaler

PriceValues == {0 - 50, 0, 100, 101, 150, 1000000}

VolumeValues == {0 - 10, 0, 5, 1000, 2000, 1000000}

\* the non-empty series over S
SeriesOver(S) == SeqsUpTo(S, MaxSeries) \ {<<>>}

\* dollar prices in cents: every cent around zero, and a grid up to $4250
DollarCents == ((0 - 300)..300) \cup {k * 250 : k \in 0..1700}

ShareCounts == ((0 - 100)..200) \cup {k * 1000 : k \in 0..100}

CandlePrices == {0, 1, 99, 100, 101, 110, 200, 1000}

call_scale_price ==
    /\ sc_op = "none"
    /\ \E prices \in SeriesOver(PriceValues) :
        /\ sc_in' = prices
        /\ sc_out' = scale_price(prices)
    /\ sc_op' = "scale_price"
    /\ UNCHANGED <<verifier_vars, encoder_vars, tool_vars, stim_vars, write_vars>>

call_scale_volume ==
    /\ sc_op = "none"
    /\ \E volumes \in SeriesOver(VolumeValues) :
        /\ sc_in' = volumes
        /\ sc_out' = scale_volume(volumes)
    /\ sc_op' = "scale_volume"
    /\ UNCHANGED <<verifier_vars, encoder_vars, tool_vars, stim_vars, write_vars>>

call_finnhub_scale_price ==
    /\ sc_op = "none"
    /\ \E cents \in DollarCents :
        /\ sc_in' = <<cents>>
        /\ sc_out' = <<finnhub_scale_price(cents)>>
    /\ sc_op' = "finnhub_scale_price"
    /\ UNCHANGED <<verifier_vars, encoder_vars, tool_vars, stim_vars, write_vars>>

call_finnhub_scale_volume ==
    /\ sc_op = "none"
    /\ \E shares \in ShareCounts :
        /\ sc_in' = <<shares>>
        /\ sc_out' = <<finnhub_scale_volume(shares)>>
    /\ sc_op' = "finnhub_scale_volume"
    /\ UNCHANGED <<verifier_vars, encoder_vars, tool_vars, stim_vars, write_vars>>

\* dollar prices in cents at and around the $500 and $1000 tiers
TierCents ==
    {0, 25, 100, 49975, 50000, 50001, 50025, 75000, 99999, 100000, 100001,
     100025, 150000, 409500, 420000}

\* scale_price on two prices, as on the closes of two candles (line 133)
call_finnhub_scale_price_twice ==
    /\ sc_op = "none"
    /\ \E p1 \in TierCents, p2 \in TierCents :
        /\ sc_in' = <<p1, p2>>
        /\ sc_out' = <<finnhub_scale_price(p1), finnhub_scale_price(p2)>>
    /\ sc_op' = "finnhub_scale_price_twice"
    /\ UNCHANGED <<verifier_vars, encoder_vars, tool_vars, stim_vars, write_vars>>

\* one iteration of the candle loop, up to the order quantities
candle_orders ==
    /\ sc_op = "none"
    /\ \E o \in CandlePrices, c \in CandlePrices, prev_close \in CandlePrices :
        /\ sc_in' = <<o, c, prev_close>>
        /\ sc_out' = <<buy_qty(o, c, prev_close), sell_qty(o, c, prev_close)>>
    /\ sc_op' = "candle_orders"
    /\ UNCHANGED <<verifier_vars, encoder_vars, tool_vars, stim_vars, write_vars>>

ScaleIdle ==
    /\ sc_op = "none"
    /\ sc_in = <<>>
    /\ sc_out = <<>>

---------------------------------------------------------------------------
(* generate_stimuli.py: df_to_stimulus, lines 336-382.                     *)
(* df is the sequence of its bars; a bar is a record of its five columns.  *)

WarmupCycles == 32

MaxBars == 2            \* bars of a DataFrame

PriceLevels == {100, 400}

Wicks == {0, 50}

BarVolumeInputs == {1000, 5000}

\* the bars: a body from Open to Close, and wicks above and below it
BarInputs ==
    {[Open |-> o, High |-> Max(o, c) + w, Low |-> Min(o, c) - w,
      Close |-> c, Volume |-> v] :
        o \in PriceLevels, c \in PriceLevels, w \in Wicks,
        v \in BarVolumeInputs}

DfInputs == SeqsUpTo(BarInputs, MaxBars) \ {<<>>}

Column(d, name) == [i \in 1..Len(d) |-> d[i][name]]

\* lines 362-364: the buy pressure in tenths
buy_pressure_flat(bar) == 5
buy_pressure(bar) ==
    IF bar.Close - bar.Open > 0 THEN 7
    ELSE IF bar.Close - bar.Open < 0 THEN 3
    ELSE 5

\* lines 370-372
warmup == Repeat(encode_idle, WarmupCycles)

\* lines 347-364
scale_columns(d) ==
    LET n == Len(d)
        p_scaled == scale_price(Column(d, "Open") \o Column(d, "High")
                                \o Column(d, "Low") \o Column(d, "Close"))
    IN  [open_s |-> SubSeq(p_scaled, 0 * n + 1, 1 * n),
         high_s |-> SubSeq(p_scaled, 1 * n + 1, 2 * n),
         low_s |-> SubSeq(p_scaled, 2 * n + 1, 3 * n),
         close_s |-> SubSeq(p_scaled, 3 * n + 1, 4 * n),
         vol_s |-> scale_volume(Column(d, "Volume")),
         buy_pressures |-> [i \in 1..n |-> buy_pressure(d[i])]]

\* lines 347-372: the scaling, the empty lists and the warm-up
df_to_stimulus_start ==
    /\ st_pc = "df_to_stimulus"
    /\ scaled' = scale_columns(df)
    /\ all_cycles' = warmup
    /\ markers' = <<>>
    /\ bar_i' = 0
    /\ st_pc' = "bar_loop"
    /\ UNCHANGED <<df, verifier_vars, encoder_vars, tool_vars, scale_vars, write_vars>>

marker_after(cycles_so_far, bar_cycles, i) ==
    <<Len(cycles_so_far) + Len(bar_cycles), i>>
\* line 375, without the timestamp
marker(cycles_so_far, bar_cycles, i) == <<Len(cycles_so_far), i>>

\* lines 374-380: one iteration of `for i in range(n)`
df_to_stimulus_bar ==
    /\ st_pc = "bar_loop"
    /\ bar_i < Len(df)
    /\ LET i == bar_i + 1
           bar_cycles == bar_to_cycles(scaled.open_s[i], scaled.high_s[i],
                                       scaled.low_s[i], scaled.close_s[i],
                                       scaled.vol_s[i],
                                       scaled.buy_pressures[i], 10)
       IN  /\ markers' = Append(markers, marker(all_cycles, bar_cycles, bar_i))
           /\ all_cycles' = all_cycles \o bar_cycles
    /\ bar_i' = bar_i + 1
    /\ UNCHANGED <<st_pc, df, scaled, verifier_vars, encoder_vars, tool_vars, scale_vars,
                   write_vars>>

\* line 382
df_to_stimulus_return ==
    /\ st_pc = "bar_loop"
    /\ bar_i = Len(df)
    /\ st_pc' = "returned"
    /\ UNCHANGED <<df, scaled, bar_i, all_cycles, markers, verifier_vars,
                   encoder_vars, tool_vars, scale_vars, write_vars>>

StimIdle ==
    /\ st_pc = "idle"
    /\ df = <<>>
    /\ scaled = <<>>
    /\ bar_i = 0
    /\ all_cycles = <<>>
    /\ markers = <<>>

---------------------------------------------------------------------------
(* generate_stimuli.py: write_stimulus_memh and write_golden, lines        *)
(* 685-717. A file is the sequence of its lines; a line is the sequence of *)
(* its characters (a word line) or of its fields (the other lines).        *)

HexChars == <<"0", "1", "2", "3", "4", "5", "6", "7",
              "8", "9", "a", "b", "c", "d", "e", "f">>

\* format(n, "x") for n >= 0
RECURSIVE format_x(_)
format_x(n) ==
    IF n < 16 THEN <<HexChars[n + 1]>>
    ELSE format_x(n \div 16) \o <<HexChars[(n % 16) + 1]>>

format_unpadded(n) == format_x(n)
\* format(n, "02x"): at least two digits, padded with zeros on the left
format_02x(n) == IF n < 16 THEN <<"0">> \o format_x(n) ELSE format_x(n)

\* line 700
word_line(w) == format_02x(w[1]) \o format_02x(w[2])

memh_lines_skip_idle(stream) ==
    <<<<"//", "NanoTrade stimulus file">>,
      <<"//", "Total cycles:", Len(stream)>>>>
    \o [i \in 1..Len(SelectSeq(stream, LAMBDA w : w # encode_idle)) |->
            word_line(SelectSeq(stream, LAMBDA w : w # encode_idle)[i])]
\* lines 697-700: everything write_stimulus_memh writes
memh_lines(stream) ==
    <<<<"//", "NanoTrade stimulus file">>,
      <<"//", "Total cycles:", Len(stream)>>>>
    \o [i \in 1..Len(stream) |-> word_line(stream[i])]

\* lines 708-717: everything write_golden writes
golden_lines(expected_alerts, n_markers) ==
    <<<<"//", "NanoTrade Golden Reference">>,
      <<"//", "Ticker:", "Date:", "Source:">>,
      <<"//", "Expected alerts:",
        IF expected_alerts # <<>> THEN expected_alerts ELSE <<"NONE">>>>,
      <<"//", "Total bars:", n_markers>>,
      <<"//">>,
      <<"//", "Format: EXPECTED_ALERT_TYPE">>>>
    \o [i \in 1..Len(expected_alerts) |-> <<"EXPECT", expected_alerts[i]>>]
    \o (IF expected_alerts = <<>> THEN <<<<"EXPECT", <<"NONE">>>>>> ELSE <<>>)

MaxWords == 3           \* cycles of a stream handed to write_stimulus_memh

WordInputs ==
    {encode_idle, encode_price(5), encode_price(4095), encode_volume(100),
     encode_sell(63)}

StreamInputs == SeqsUpTo(WordInputs, MaxWords)

AlertInputs == SeqsUpTo(ClassLabels, MaxExpected)

\* what is at the target path before the call
OldFile == <<<<"//", "an earlier run">>>>

WriterInputs ==
    {<<"write_stimulus_memh", stream>> : stream \in StreamInputs}
    \cup {<<"write_golden", alerts, n>> :
            alerts \in AlertInputs, n \in 0..MaxBars}

LinesOf(input) ==
    IF input[1] = "write_stimulus_memh"
    THEN memh_lines(input[2])
    ELSE golden_lines(input[2], input[3])

\* lines 696 and 707: open(filepath, "w") creates or truncates the file
write_open ==
    /\ wr_pc = "open"
    /\ fs' = Some(<<>>)
    /\ wr_lines' = LinesOf(wr_in)
    /\ wr_n' = 0
    /\ wr_pc' = "writing"
    /\ UNCHANGED <<wr_in, verifier_vars, encoder_vars, tool_vars, scale_vars, stim_vars>>

\* lines 697-700 and 708-717: one f.write(...)
write_line ==
    /\ wr_pc = "writing"
    /\ wr_n < Len(wr_lines)
    /\ fs' = Some(Append(ValueOf(fs), wr_lines[wr_n + 1]))
    /\ wr_n' = wr_n + 1
    /\ UNCHANGED <<wr_pc, wr_in, wr_lines, verifier_vars, encoder_vars, tool_vars,
                   scale_vars, stim_vars>>

\* one f.write(...) that raises (a full disk, an I/O error): the with block
\* closes the file and the exception leaves the function
write_line_raises ==
    /\ wr_pc = "writing"
    /\ wr_n < Len(wr_lines)
    /\ wr_pc' = "raised"
    /\ UNCHANGED <<wr_in, wr_lines, wr_n, fs, verifier_vars, encoder_vars, tool_vars,
                   scale_vars, stim_vars>>

\* the end of the with block
write_close ==
    /\ wr_pc = "writing"
    /\ wr_n = Len(wr_lines)
    /\ wr_pc' = "closed"
    /\ UNCHANGED <<wr_in, wr_lines, wr_n, fs, verifier_vars, encoder_vars, tool_vars,
                   scale_vars, stim_vars>>

(* check_results.py: parse_golden, lines 39-52, on the text of a file.     *)
(* The text of a line is the sequence of its characters, with each word of *)
(* a label kept whole.                                                     *)

\* "_".join(words)
RECURSIVE JoinLabel(_)
JoinLabel(alert) ==
    IF Len(alert) <= 1 THEN alert
    ELSE <<alert[1], "_">> \o JoinLabel(Tail(alert))

\* the text of a line write_golden wrote, after strip()
LineText(line) ==
    IF line[1] = "EXPECT"
    THEN <<"E", "X", "P", "E", "C", "T", " ">> \o JoinLabel(line[2])
    ELSE <<"/", "/">>

\* text.startswith(prefix)
StartsWith(text, prefix) ==
    Len(text) >= Len(prefix) /\ SubSeq(text, 1, Len(prefix)) = prefix

ExpectedPrefix == <<"E", "X", "P", "E", "C", "T", "E", "D", "=">>

\* line 51: the labels of text.split(","), each label as its words
RECURSIVE SplitLabels(_, _, _)
SplitLabels(text, label, labels) ==
    IF text = <<>> THEN Append(labels, IF label = <<>> THEN <<"">> ELSE label)
    ELSE IF text[1] = ","
    THEN SplitLabels(Tail(text), <<>>,
                     Append(labels, IF label = <<>> THEN <<"">> ELSE label))
    ELSE IF text[1] = "_"
    THEN SplitLabels(Tail(text), label, labels)
    ELSE SplitLabels(Tail(text), Append(label, text[1]), labels)

\* lines 44-52: the expected list after the lines of the file
RECURSIVE parse_golden_text(_, _)
parse_golden_text(lines, expected_so_far) ==
    IF lines = <<>> THEN expected_so_far
    ELSE parse_golden_text(
            Tail(lines),
            IF StartsWith(LineText(lines[1]), ExpectedPrefix)
            THEN SplitLabels(SubSeq(LineText(lines[1]),
                                    Len(ExpectedPrefix) + 1,
                                    Len(LineText(lines[1]))),
                             <<>>, <<>>)
            ELSE expected_so_far)

\* check_results.parse_golden on the file write_golden has written
parse_golden_written ==
    /\ wr_pc = "closed"
    /\ wr_in[1] = "write_golden"
    /\ expected' = parse_golden_text(ValueOf(fs), <<>>)
    /\ wr_pc' = "parsed"
    /\ UNCHANGED <<pc, argc, golden_exists, result_exists, saw_rule_line,
                   saw_ml_line, rule_mask, ml_mask, idx, passed, failed,
                   opened, out, score, ret, exit_code>>
    /\ UNCHANGED <<wr_in, wr_lines, wr_n, fs, encoder_vars, tool_vars, scale_vars,
                   stim_vars>>

WriteIdle ==
    /\ wr_pc = "idle"
    /\ wr_in = <<>>
    /\ wr_lines = <<>>
    /\ wr_n = 0
    /\ fs = None

---------------------------------------------------------------------------
(* check_results.py: parse_result, lines 55-65, on the lines of a given    *)
(* file                                                                    *)

MaxLines == 3           \* lines of a transcript handed to parse_result

TranscriptInputs == SeqsUpTo(ResultLines, MaxLines)

\* lines 59-64: the masks after the lines of the file, in file order
RECURSIVE parse_result_lines(_, _)
parse_result_lines(lines, masks) ==
    IF lines = <<>> THEN masks
    ELSE parse_result_lines(Tail(lines), ParseResultLine(lines[1], masks))

\* lines 55-65
call_parse_result ==
    /\ pc = "parse_result_file"
    /\ LET after == parse_result_lines(transcript,
                        [rule |-> InitRuleMask, ml |-> InitMlMask])
       IN  /\ rule_mask' = after.rule
           /\ ml_mask' = after.ml
    /\ pc' = "parse_result_returned"
    /\ UNCHANGED <<argc, golden_exists, result_exists, saw_rule_line,
                   saw_ml_line, expected, idx, passed, failed, opened, out,
                   score, ret, exit_code>>
    /\ UNCHANGED <<encoder_vars, generator_vars>>

---------------------------------------------------------------------------
(* generate_stimuli.py: main, lines 915-945, with process_stock,           *)
(* write_run_script and write_check_script, as far as files are written.   *)
(* A path is <<directory, name>>; "." is the directory of the generator,   *)
(* which is also where the repository keeps check_results.py, and          *)
(* "stimuli" is OUT_DIR. files gives, for each path, who wrote it last.    *)

MaxStocks == 3          \* stocks of SCENARIOS

Bases == {"GME_20210128", "AMC_20210128", "SPY_20190315", "BB_20210128"}

StockInputs == SeqsUpTo(Bases, MaxStocks)

\* lines 43 and 762-764
OutPath(base, suffix) == <<"stimuli", <<base, suffix>>>>

\* line 789
RunScriptPath == <<"stimuli", <<"run_all_scenarios", ".sh">>>>

\* line 835: os.path.join(os.path.dirname(__file__), "check_results.py")
CheckScriptPath == <<".", <<"check_results", ".py">>>>

Paths ==
    {OutPath(b, s) : b \in Bases,
                     s \in {"_stimulus.memh", "_golden.txt", "_info.txt"}}
        \cup {RunScriptPath, CheckScriptPath}

\* the files before the run: check_results.py as the repository has it,
\* the output directory empty or holding the files of an earlier run
FilesBefore ==
    {[p \in Paths |-> IF p = CheckScriptPath THEN "repository" ELSE was] :
        was \in {"absent", "earlier run"}}

\* lines 821-822: the command line of the checker for one stock
checker_command(base) ==
    <<"check_results.py", OutPath(base, "_result.txt"),
      OutPath(base, "_golden.txt")>>

\* check_results.py, main, lines 143-144: sys.argv[1] and sys.argv[2]
main_golden_path(argv) == argv[2]
main_result_path(argv) == argv[3]

\* lines 931-941 with process_stock, lines 766-768: one stock
main_process_stock ==
    /\ gm_pc = "stocks"
    /\ gm_i < Len(gm_stocks)
    /\ LET base == gm_stocks[gm_i + 1]
       IN  files' = [files EXCEPT
                        ![OutPath(base, "_stimulus.memh")] = "write_stimulus_memh",
                        ![OutPath(base, "_golden.txt")] = "write_golden",
                        ![OutPath(base, "_info.txt")] = "write_info"]
    /\ gm_i' = gm_i + 1
    /\ UNCHANGED <<gm_pc, gm_stocks, run_script>>
    /\ UNCHANGED <<verifier_vars, encoder_vars, scale_vars, stim_vars,
                   write_vars, parse_vars, embed_vars, demo_vars>>

\* line 944: write_run_script(all_results), lines 789-829
main_write_run_script ==
    /\ gm_pc = "stocks"
    /\ gm_i = Len(gm_stocks)
    /\ files' = [files EXCEPT ![RunScriptPath] = "write_run_script"]
    /\ run_script' = [i \in 1..Len(gm_stocks) |-> checker_command(gm_stocks[i])]
    /\ gm_pc' = "write_check_script"
    /\ UNCHANGED <<gm_stocks, gm_i>>
    /\ UNCHANGED <<verifier_vars, encoder_vars, scale_vars, stim_vars,
                   write_vars, parse_vars, embed_vars, demo_vars>>

\* line 945: write_check_script(), lines 835-911, and the return of main
main_write_check_script ==
    /\ gm_pc = "write_check_script"
    /\ files' = [files EXCEPT ![CheckScriptPath] = "write_check_script"]
    /\ gm_pc' = "returned"
    /\ UNCHANGED <<gm_stocks, gm_i, run_script>>
    /\ UNCHANGED <<verifier_vars, encoder_vars, scale_vars, stim_vars,
                   write_vars, parse_vars, embed_vars, demo_vars>>

---------------------------------------------------------------------------
(* generate_stimuli.py: the checker that write_check_script writes, lines  *)
(* 836-909. A line of the result file is the sequence of its characters.   *)

MaxLogLines == 2        \* lines of a result file handed to the checker

\* lines 857-872: alert_map, marker text -> label
alert_map ==
    (<<"S", "P", "I", "K", "E">> :> <<"PRICE", "SPIKE">>) @@
    (<<"V", "O", "L", "_", "D", "R", "Y">> :> <<"VOL", "DRY">>) @@
    (<<"V", "O", "L", "_", "S", "R", "G", "E">> :> <<"VOLUME", "SURGE">>) @@
    (<<"V", "E", "L", "O", "C", "I", "T", "Y">> :> <<"TRADE", "VELOCITY">>) @@
    (<<"I", "M", "B", "A", "L", "A", "N", "C">> :> <<"ORDER", "IMBALANCE">>) @@
    (<<"S", "P", "R", "E", "A", "D">> :> <<"SPREAD", "WIDENING">>) @@
    (<<"V", "O", "L", "A", "T", "I", "L">> :> <<"VOLATILITY">>) @@
    (<<"F", "L", "A", "S", "H">> :> <<"FLASH", "CRASH">>) @@
    (<<"S", "P", "I", "K", "E", " ">> :> <<"PRICE", "SPIKE">>) @@
    (<<"V", "O", "L", "S", "R", "G">> :> <<"VOLUME", "SURGE">>) @@
    (<<"F", "L", "A", "S", "H", "!">> :> <<"FLASH", "CRASH">>) @@
    (<<"I", "M", "B", "A", "L", " ">> :> <<"ORDER", "IMBALANCE">>) @@
    (<<"Q", "S", "T", "U", "F", "F">> :> <<"QUOTE", "STUFFING">>)

\* line 875: key in line
Contains(line, key) ==
    \E i \in 1..(Len(line) - Len(key) + 1) :
        SubSeq(line, i, i + Len(key) - 1) = key

\* lines 874-876: the labels one line adds to fired
labels_on_line(line) ==
    {alert_map[key] : key \in {k \in DOMAIN alert_map : Contains(line, k)}}

\* line.split(): the fields of a text, each field as its "_"-separated words
RECURSIVE SplitFields(_, _, _)
SplitFields(text, field, fields) ==
    IF text = <<>> THEN (IF field = <<>> THEN fields ELSE Append(fields, field))
    ELSE IF text[1] = " "
    THEN SplitFields(Tail(text), <<>>,
                     IF field = <<>> THEN fields ELSE Append(fields, field))
    ELSE IF text[1] = "_"
    THEN SplitFields(Tail(text), field, fields)
    ELSE SplitFields(Tail(text), Append(field, text[1]), fields)

ExpectPrefix == <<"E", "X", "P", "E", "C", "T", " ">>

\* lines 845-852: the embedded parse_golden, on the lines of the file
RECURSIVE embedded_parse_golden(_, _)
embedded_parse_golden(lines, expected_so_far) ==
    IF lines = <<>> THEN expected_so_far
    ELSE embedded_parse_golden(
            Tail(lines),
            IF StartsWith(LineText(lines[1]), ExpectPrefix)
            THEN Append(expected_so_far,
                        SplitFields(LineText(lines[1]), <<>>, <<>>)[2])
            ELSE expected_so_far)

\* a verdict that has no zero-alerts mode
embedded_passes_no_none(expected_list, fired_set) ==
    \A i \in 1..Len(expected_list) : expected_list[i] \in fired_set

\* lines 894-908: the verdict
embedded_passes(expected_list, fired_set) ==
    IF expected_list = <<NoneLabel>>
    THEN fired_set = {}
    ELSE \A i \in 1..Len(expected_list) : expected_list[i] \in fired_set

\* the labels of the goldens handed to the checker
GoldenLabels == {<<"PRICE", "SPIKE">>, <<"FLASH", "CRASH">>, <<"VOLUME", "DRY">>}

\* the golden files: what write_golden writes, or an empty file
GoldenFiles ==
    {golden_lines(alerts, 0) : alerts \in SeqsUpTo(GoldenLabels, MaxExpected)}
        \cup {<<>>}

\* the texts of a result line: a marker word or another word, then nothing,
\* a space or an exclamation mark
LogWords ==
    {<<"S", "P", "I", "K", "E">>, <<"V", "O", "L", "_", "D", "R", "Y">>,
     <<"V", "O", "L", "_", "S", "R", "G", "E">>,
     <<"V", "E", "L", "O", "C", "I", "T", "Y">>,
     <<"I", "M", "B", "A", "L", "A", "N", "C">>,
     <<"S", "P", "R", "E", "A", "D">>, <<"V", "O", "L", "A", "T", "I", "L">>,
     <<"F", "L", "A", "S", "H">>, <<"V", "O", "L", "S", "R", "G">>,
     <<"I", "M", "B", "A", "L">>, <<"Q", "S", "T", "U", "F", "F">>,
     <<"o", "k">>}

LogLines ==
    LogWords \cup {Append(<<"S", "P", "I", "K", "E">>, " "),
                   Append(<<"F", "L", "A", "S", "H">>, "!"),
                   Append(<<"I", "M", "B", "A", "L">>, " ")}

LogInputs == SeqsUpTo(LogLines, MaxLogLines)

\* lines 880-882: the wrong number of arguments
embedded_usage ==
    /\ em_pc = "start"
    /\ em_argc # 3
    /\ em_exit' = Some(1)
    /\ em_pc' = "exited"
    /\ UNCHANGED <<em_argc, em_golden, em_expected, em_log, em_line, fired>>
    /\ UNCHANGED <<verifier_vars, encoder_vars, scale_vars, stim_vars,
                   write_vars, parse_vars, main_vars, demo_vars>>

\* lines 884-887: expected = parse_golden(golden_path)
embedded_read_golden ==
    /\ em_pc = "start"
    /\ em_argc = 3
    /\ em_expected' = embedded_parse_golden(em_golden, <<>>)
    /\ em_pc' = "parse_result"
    /\ UNCHANGED <<em_argc, em_golden, em_log, em_line, fired, em_exit>>
    /\ UNCHANGED <<verifier_vars, encoder_vars, scale_vars, stim_vars,
                   write_vars, parse_vars, main_vars, demo_vars>>

\* lines 873-876: one line of the result file
embedded_scan_line ==
    /\ em_pc = "parse_result"
    /\ em_line < Len(em_log)
    /\ fired' = fired \cup labels_on_line(em_log[em_line + 1])
    /\ em_line' = em_line + 1
    /\ UNCHANGED <<em_pc, em_argc, em_golden, em_expected, em_log, em_exit>>
    /\ UNCHANGED <<verifier_vars, encoder_vars, scale_vars, stim_vars,
                   write_vars, parse_vars, main_vars, demo_vars>>

\* lines 877, 894-908: the end of the file, then the verdict
embedded_verdict ==
    /\ em_pc = "parse_result"
    /\ em_line = Len(em_log)
    /\ em_exit' = Some(IF embedded_passes(em_expected, fired) THEN 0 ELSE 1)
    /\ em_pc' = "exited"
    /\ UNCHANGED <<em_argc, em_golden, em_expected, em_log, em_line, fired>>
    /\ UNCHANGED <<verifier_vars, encoder_vars, scale_vars, stim_vars,
                   write_vars, parse_vars, main_vars, demo_vars>>

---------------------------------------------------------------------------
(* test/test.py: realtime_ws_demo, lines 104-195, and the thread           *)
(* ws_thread_coinbase_exchange, lines 48-101, that fills its queue. An     *)
(* item of the queue is the tuple the thread has put. events holds the     *)
(* input_type of each BUY/SELL word driven on the inputs (line 173).       *)

MaxMsgs == 2            \* N_MSGS ranges over 0..MaxMsgs
MaxQueue == 2           \* maxsize of the queue (5000 at line 137)

STATUS == "__STATUS__"
ERROR == "__ERROR__"

\* line 91: (best_bid, 0.0, best_ask, 0.0), prices in cents
Ticker == <<6500000, 0, 6500100, 0>>

\* lines 156, 158: isinstance(item, tuple) and len(item) == 2 and item[0] == tag
IsTagged(item, tag) == Len(item) = 2 /\ item[1] = tag

\* out_q.put(item) returns once the queue has room
put(item) ==
    /\ Len(q_items) < MaxQueue
    /\ q_items' = Append(q_items, item)

\* line 58-59: the connection is open
ws_connect ==
    /\ ws_pc = "connect"
    /\ put(<<STATUS, "CONNECTED">>)
    /\ ws_pc' = "subscribe"
    /\ UNCHANGED <<demo_pc, stop_evt, n_msgs, got, first_data, elapsed,
                   events, taken>>
    /\ UNCHANGED <<verifier_vars, encoder_vars, scale_vars, stim_vars,
                   write_vars, parse_vars, embed_vars, main_vars>>

\* lines 61-67: the subscription is sent
ws_subscribe ==
    /\ ws_pc = "subscribe"
    /\ put(<<STATUS, "SUBSCRIBED">>)
    /\ ws_pc' = "loop"
    /\ UNCHANGED <<demo_pc, stop_evt, n_msgs, got, first_data, elapsed,
                   events, taken>>
    /\ UNCHANGED <<verifier_vars, encoder_vars, scale_vars, stim_vars,
                   write_vars, parse_vars, embed_vars, main_vars>>

\* line 71: while not stop_evt.is_set()
ws_check_stop ==
    /\ ws_pc = "loop"
    /\ ws_pc' = IF stop_evt THEN "done" ELSE "recv"
    /\ UNCHANGED <<demo_pc, q_items, stop_evt, n_msgs, got, first_data,
                   elapsed, events, taken>>
    /\ UNCHANGED <<verifier_vars, encoder_vars, scale_vars, stim_vars,
                   write_vars, parse_vars, embed_vars, main_vars>>

\* lines 72-77: a message of type "error"
ws_recv_error ==
    /\ ws_pc = "recv"
    /\ put(<<ERROR, "Coinbase error">>)
    /\ ws_pc' = "done"
    /\ UNCHANGED <<demo_pc, stop_evt, n_msgs, got, first_data, elapsed,
                   events, taken>>
    /\ UNCHANGED <<verifier_vars, encoder_vars, scale_vars, stim_vars,
                   write_vars, parse_vars, embed_vars, main_vars>>

\* lines 72-73, 79-80, 83-86, 92-94: a message that is not a ticker, has no
\* best_bid or best_ask, or comes within 50 ms of the last one emitted
ws_recv_skip ==
    /\ ws_pc = "recv"
    /\ ws_pc' = "loop"
    /\ UNCHANGED <<demo_pc, q_items, stop_evt, n_msgs, got, first_data,
                   elapsed, events, taken>>
    /\ UNCHANGED <<verifier_vars, encoder_vars, scale_vars, stim_vars,
                   write_vars, parse_vars, embed_vars, main_vars>>

\* lines 72-73, 79-97: a ticker message
ws_recv_ticker ==
    /\ ws_pc = "recv"
    /\ put(Ticker)
    /\ ws_pc' = "loop"
    /\ UNCHANGED <<demo_pc, stop_evt, n_msgs, got, first_data, elapsed,
                   events, taken>>
    /\ UNCHANGED <<verifier_vars, encoder_vars, scale_vars, stim_vars,
                   write_vars, parse_vars, embed_vars, main_vars>>

\* lines 99-100: connect, send, recv or json.loads raised
ws_exception ==
    /\ ws_pc \in {"connect", "subscribe", "recv"}
    /\ put(<<ERROR, "exception">>)
    /\ ws_pc' = "done"
    /\ UNCHANGED <<demo_pc, stop_evt, n_msgs, got, first_data, elapsed,
                   events, taken>>
    /\ UNCHANGED <<verifier_vars, encoder_vars, scale_vars, stim_vars,
                   write_vars, parse_vars, embed_vars, main_vars>>

\* line 150: time.time() - start_wall has passed startup_timeout_s
startup_timeout_passes ==
    /\ demo_pc \in {"loop", "event"}
    /\ ~elapsed
    /\ elapsed' = TRUE
    /\ UNCHANGED <<demo_pc, ws_pc, q_items, stop_evt, n_msgs, got,
                   first_data, events, taken>>
    /\ UNCHANGED <<verifier_vars, encoder_vars, scale_vars, stim_vars,
                   write_vars, parse_vars, embed_vars, main_vars>>

\* lines 148-152: the queue is empty, await Timer(1 us) and try again
demo_wait ==
    /\ demo_pc = "loop"
    /\ got < n_msgs
    /\ q_items = <<>>
    /\ first_data \/ ~elapsed
    /\ UNCHANGED demo_vars
    /\ UNCHANGED <<verifier_vars, encoder_vars, scale_vars, stim_vars,
                   write_vars, parse_vars, embed_vars, main_vars>>

\* lines 148-151, 192-193: no data before the startup timeout
demo_timeout ==
    /\ demo_pc = "loop"
    /\ got < n_msgs
    /\ q_items = <<>>
    /\ ~first_data /\ elapsed
    /\ stop_evt' = TRUE
    /\ demo_pc' = "raised"
    /\ UNCHANGED <<ws_pc, q_items, n_msgs, got, first_data, elapsed, events,
                   taken>>
    /\ UNCHANGED <<verifier_vars, encoder_vars, scale_vars, stim_vars,
                   write_vars, parse_vars, embed_vars, main_vars>>

\* lines 154-157, 192-193: an __ERROR__ item
demo_get_error ==
    /\ demo_pc = "loop"
    /\ got < n_msgs
    /\ q_items # <<>>
    /\ IsTagged(Head(q_items), ERROR)
    /\ q_items' = Tail(q_items)
    /\ taken' = Append(taken, Head(q_items))
    /\ stop_evt' = TRUE
    /\ demo_pc' = "raised"
    /\ UNCHANGED <<ws_pc, n_msgs, got, first_data, elapsed, events>>
    /\ UNCHANGED <<verifier_vars, encoder_vars, scale_vars, stim_vars,
                   write_vars, parse_vars, embed_vars, main_vars>>

\* a status item that advances the counter
demo_get_status_counted ==
    /\ demo_pc = "loop"
    /\ got < n_msgs
    /\ q_items # <<>>
    /\ IsTagged(Head(q_items), STATUS)
    /\ q_items' = Tail(q_items)
    /\ taken' = Append(taken, Head(q_items))
    /\ got' = got + 1
    /\ UNCHANGED <<demo_pc, ws_pc, stop_evt, n_msgs, first_data, elapsed,
                   events>>
    /\ UNCHANGED <<verifier_vars, encoder_vars, scale_vars, stim_vars,
                   write_vars, parse_vars, embed_vars, main_vars>>

\* lines 154, 158-160: a __STATUS__ item
demo_get_status ==
    /\ demo_pc = "loop"
    /\ got < n_msgs
    /\ q_items # <<>>
    /\ IsTagged(Head(q_items), STATUS)
    /\ q_items' = Tail(q_items)
    /\ taken' = Append(taken, Head(q_items))
    /\ UNCHANGED <<demo_pc, ws_pc, stop_evt, n_msgs, got, first_data, elapsed,
                   events>>
    /\ UNCHANGED <<verifier_vars, encoder_vars, scale_vars, stim_vars,
                   write_vars, parse_vars, embed_vars, main_vars>>

\* lines 154, 162-175: a data item, driven as one BUY or SELL word
demo_get_data ==
    /\ demo_pc = "loop"
    /\ got < n_msgs
    /\ q_items # <<>>
    /\ ~IsTagged(Head(q_items), ERROR)
    /\ ~IsTagged(Head(q_items), STATUS)
    /\ q_items' = Tail(q_items)
    /\ taken' = Append(taken, Head(q_items))
    /\ first_data' = TRUE
    /\ events' = Append(events, IF got % 2 = 0 THEN 2 ELSE 3)
    /\ demo_pc' = "event"
    /\ UNCHANGED <<ws_pc, stop_evt, n_msgs, got, elapsed>>
    /\ UNCHANGED <<verifier_vars, encoder_vars, scale_vars, stim_vars,
                   write_vars, parse_vars, embed_vars, main_vars>>

\* lines 174-190: the event cycles have passed, got += 1
demo_count ==
    /\ demo_pc = "event"
    /\ got' = got + 1
    /\ demo_pc' = "loop"
    /\ UNCHANGED <<ws_pc, q_items, stop_evt, n_msgs, first_data, elapsed,
                   events, taken>>
    /\ UNCHANGED <<verifier_vars, encoder_vars, scale_vars, stim_vars,
                   write_vars, parse_vars, embed_vars, main_vars>>

\* lines 147, 192-195: got has reached n_msgs
demo_finish ==
    /\ demo_pc = "loop"
    /\ got >= n_msgs
    /\ stop_evt' = TRUE
    /\ demo_pc' = "finished"
    /\ UNCHANGED <<ws_pc, q_items, n_msgs, got, first_data, elapsed, events,
                   taken>>
    /\ UNCHANGED <<verifier_vars, encoder_vars, scale_vars, stim_vars,
                   write_vars, parse_vars, embed_vars, main_vars>>

---------------------------------------------------------------------------
(* The parts that take no step in a run of another part *)

ParseIdle == transcript = <<>>

EmbedIdle ==
    /\ em_pc = "idle"
    /\ em_argc = 1
    /\ em_golden = <<>>
    /\ em_expected = <<>>
    /\ em_log = <<>>
    /\ em_line = 0
    /\ fired = {}
    /\ em_exit = None

MainIdle ==
    /\ gm_pc = "idle"
    /\ gm_stocks = <<>>
    /\ gm_i = 0
    /\ files = <<>>
    /\ run_script = <<>>

DemoIdle ==
    /\ demo_pc = "idle"
    /\ ws_pc = "idle"
    /\ q_items = <<>>
    /\ stop_evt = FALSE
    /\ n_msgs = 0
    /\ got = 0
    /\ first_data = FALSE
    /\ elapsed = FALSE
    /\ events = <<>>
    /\ taken = <<>>

ToolsIdle == ParseIdle /\ EmbedIdle /\ MainIdle /\ DemoIdle

---------------------------------------------------------------------------
(* The checker run: python check_results.py <golden.txt> <result.txt> *)

EncoderIdle ==
    /\ enc_op = "none"
    /\ enc_in = <<>>
    /\ cycles = <<>>

Init ==
    /\ pc = "main"
    /\ argc \in 1..MaxArgc
    /\ golden_exists \in BOOLEAN
    /\ result_exists \in BOOLEAN
    /\ saw_rule_line = FALSE
    /\ saw_ml_line = FALSE
    /\ expected = <<>>
    /\ rule_mask = None
    /\ ml_mask = None
    /\ idx = 1
    /\ passed = <<>>
    /\ failed = <<>>
    /\ opened = {}
    /\ out = <<>>
    /\ score = None
    /\ ret = None
    /\ exit_code = None
    /\ EncoderIdle
    /\ ScaleIdle
    /\ StimIdle
    /\ WriteIdle
    /\ ToolsIdle

Next ==
    \/ main_start
    \/ parse_golden_open
    \/ parse_golden_line
    \/ parse_golden_return
    \/ parse_result_open
    \/ parse_result_line
    \/ parse_result_return
    \/ check_start
    \/ check_label
    \/ check_score
    \/ main_exit

Spec == Init /\ [][Next]_vars

---------------------------------------------------------------------------
(* The encoder functions, called on their own *)

VerifierIdle ==
    /\ pc = "idle"
    /\ argc = 1
    /\ golden_exists = FALSE
    /\ result_exists = FALSE
    /\ saw_rule_line = FALSE
    /\ saw_ml_line = FALSE
    /\ expected = <<>>
    /\ rule_mask = None
    /\ ml_mask = None
    /\ idx = 1
    /\ passed = <<>>
    /\ failed = <<>>
    /\ opened = {}
    /\ out = <<>>
    /\ score = None
    /\ ret = None
    /\ exit_code = None

InitEnc ==
    VerifierIdle /\ EncoderIdle /\ ScaleIdle /\ StimIdle /\ WriteIdle /\ ToolsIdle

NextEnc ==
    \/ call_encode_price
    \/ call_encode_volume
    \/ call_encode_buy
    \/ call_encode_sell
    \/ call_encode_idle
    \/ call_bar_to_cycles

SpecEnc == InitEnc /\ [][NextEnc]_vars

---------------------------------------------------------------------------
(* The scaling functions, called on their own *)

InitScale ==
    VerifierIdle /\ EncoderIdle /\ ScaleIdle /\ StimIdle /\ WriteIdle /\ ToolsIdle

NextScale ==
    \/ call_scale_price
    \/ call_scale_volume
    \/ call_finnhub_scale_price
    \/ call_finnhub_scale_price_twice
    \/ call_finnhub_scale_volume
    \/ candle_orders

SpecScale == InitScale /\ [][NextScale]_vars

---------------------------------------------------------------------------
(* One call of df_to_stimulus(df, ticker) *)

InitStim ==
    /\ VerifierIdle
    /\ EncoderIdle
    /\ ScaleIdle
    /\ WriteIdle
    /\ ToolsIdle
    /\ st_pc = "df_to_stimulus"
    /\ df \in DfInputs
    /\ scaled = <<>>
    /\ bar_i = 0
    /\ all_cycles = <<>>
    /\ markers = <<>>

NextStim ==
    \/ df_to_stimulus_start
    \/ df_to_stimulus_bar
    \/ df_to_stimulus_return

SpecStim == InitStim /\ [][NextStim]_vars

---------------------------------------------------------------------------
(* One call of write_stimulus_memh or write_golden *)

InitWrite ==
    /\ VerifierIdle
    /\ EncoderIdle
    /\ ScaleIdle
    /\ StimIdle
    /\ ToolsIdle
    /\ wr_pc = "open"
    /\ wr_in \in WriterInputs
    /\ wr_lines = <<>>
    /\ wr_n = 0
    /\ fs \in {None, Some(OldFile)}

NextWrite ==
    \/ write_open
    \/ write_line
    \/ write_line_raises
    \/ write_close
    \/ parse_golden_written

SpecWrite == InitWrite /\ [][NextWrite]_vars

---------------------------------------------------------------------------
(* One call of parse_result(path) on a given file *)

InitParse ==
    /\ pc = "parse_result_file"
    /\ argc = 1
    /\ golden_exists = FALSE
    /\ result_exists = TRUE
    /\ saw_rule_line = FALSE
    /\ saw_ml_line = FALSE
    /\ expected = <<>>
    /\ rule_mask = None
    /\ ml_mask = None
    /\ idx = 1
    /\ passed = <<>>
    /\ failed = <<>>
    /\ opened = {}
    /\ out = <<>>
    /\ score = None
    /\ ret = None
    /\ exit_code = None
    /\ EncoderIdle /\ ScaleIdle /\ StimIdle /\ WriteIdle
    /\ EmbedIdle /\ MainIdle /\ DemoIdle
    /\ transcript \in TranscriptInputs

NextParse == call_parse_result

SpecParse == InitParse /\ [][NextParse]_vars

---------------------------------------------------------------------------
(* One run of generate_stimuli.main() *)

InitMain ==
    /\ VerifierIdle /\ EncoderIdle /\ ScaleIdle /\ StimIdle /\ WriteIdle
    /\ ParseIdle /\ EmbedIdle /\ DemoIdle
    /\ gm_pc = "stocks"
    /\ gm_stocks \in StockInputs
    /\ gm_i = 0
    /\ files \in FilesBefore
    /\ run_script = <<>>

NextMain ==
    \/ main_process_stock
    \/ main_write_run_script
    \/ main_write_check_script

SpecMain == InitMain /\ [][NextMain]_vars

---------------------------------------------------------------------------
(* One run of the written checker: python3 check_results.py <result.txt>   *)
(* <golden.txt>                                                            *)

InitEmbed ==
    /\ VerifierIdle /\ EncoderIdle /\ ScaleIdle /\ StimIdle /\ WriteIdle
    /\ ParseIdle /\ MainIdle /\ DemoIdle
    /\ em_pc = "start"
    /\ \/ /\ em_argc = 3
          /\ em_golden \in GoldenFiles
          /\ em_log \in LogInputs
       \/ /\ em_argc \in (1..MaxArgc) \ {3}
          /\ em_golden = <<>>
          /\ em_log = <<>>
    /\ em_expected = <<>>
    /\ em_line = 0
    /\ fired = {}
    /\ em_exit = None

NextEmbed ==
    \/ embedded_usage
    \/ embedded_read_golden
    \/ embedded_scan_line
    \/ embedded_verdict

SpecEmbed == InitEmbed /\ [][NextEmbed]_vars

---------------------------------------------------------------------------
(* One run of realtime_ws_demo, from the start of its thread *)

InitDemo ==
    /\ VerifierIdle /\ EncoderIdle /\ ScaleIdle /\ StimIdle /\ WriteIdle
    /\ ParseIdle /\ EmbedIdle /\ MainIdle
    /\ demo_pc = "loop"
    /\ ws_pc = "connect"
    /\ q_items = <<>>
    /\ stop_evt = FALSE
    /\ n_msgs \in 0..MaxMsgs
    /\ got = 0
    /\ first_data = FALSE
    /\ elapsed = FALSE
    /\ events = <<>>
    /\ taken = <<>>

NextDemo ==
    \/ ws_connect
    \/ ws_subscribe
    \/ ws_check_stop
    \/ ws_recv_error
    \/ ws_recv_skip
    \/ ws_recv_ticker
    \/ ws_exception
    \/ startup_timeout_passes
    \/ demo_wait
    \/ demo_timeout
    \/ demo_get_error
    \/ demo_get_status
    \/ demo_get_data
    \/ demo_count
    \/ demo_finish

SpecDemo == InitDemo /\ [][NextDemo]_vars

---------------------------------------------------------------------------
(* Properties of the checker run (Spec) *)

\* the base name of a label: the label without its _ML suffix
KeyOf(alert) == IF EndsWithML(alert) THEN StripML(alert) ELSE alert

\* check_label processes expected[idx] in this step
LabelStep == pc = "check_loop" /\ idx' = idx + 1

\* this step adds one entry to passed and nothing to failed
StepSatisfied == Len(passed') = Len(passed) + 1 /\ failed' = failed

\* this step adds name to failed and nothing to passed
StepMissed(name) == passed' = passed /\ failed' = Append(failed, name)

Count(seq, Test(_)) == Cardinality({j \in 1..Len(seq) : Test(seq[j])})

\* C1: with the golden exactly [NONE] and a parsed rule mask, check()
\* returns PASS if and only if bit 7 of the rule mask is clear, whatever the
\* other seven bits and the ML mask are.
C1_NoneChecksFlashCrashOnly ==
    (ret # None /\ expected = <<NoneLabel>> /\ rule_mask # None)
        => (ValueOf(ret) <=> ~BitSet(ValueOf(rule_mask), 7))

C1_Witness ==
    /\ ret = Some(TRUE)
    /\ expected = <<NoneLabel>>
    /\ rule_mask = Some(127)
    /\ ml_mask = Some(255)

\* C2: every expected label of the AlertLabel enumeration without the _ML
\* suffix is satisfied if its rule bit is set, else satisfied if the ML mask
\* has the bit of the same name, and is otherwise recorded as a miss.
C2_RuleThenMlThenMiss ==
    [][(LabelStep /\ expected[idx] \in AlertLabel) =>
        LET a == expected[idx]
            ruleHit == a \in DOMAIN RULE_BITS
                        /\ BitSet(ValueOf(rule_mask), RULE_BITS[a])
            mlHit == a \in DOMAIN ML_BITS /\ ml_mask # None
                        /\ BitSet(ValueOf(ml_mask), ML_BITS[a])
        IN  IF ruleHit \/ mlHit THEN StepSatisfied ELSE StepMissed(a)]_vars

\* C3: every expected label with the _ML suffix whose base name is in a
\* table is satisfied only by the ML mask's bit of the base name (ML
\* index), whatever the rule mask is; with the ML mask unavailable it is
\* counted satisfied with the "(?)" annotation.
C3_MlOnlyLabel ==
    [][(LabelStep /\ EndsWithML(expected[idx])
                  /\ StripML(expected[idx]) \in AlertLabel) =>
        LET a == expected[idx]
            base == StripML(a)
        IN  IF ml_mask = None
            THEN passed' = Append(passed, Entry(a, "(?)")) /\ failed' = failed
            ELSE IF base \in DOMAIN ML_BITS
                    /\ BitSet(ValueOf(ml_mask), ML_BITS[base])
            THEN passed' = Append(passed, Entry(base, "(ML)")) /\ failed' = failed
            ELSE StepMissed(base)]_vars

\* C4: for a golden other than [NONE], check() returns PASS if and only if
\* no label was missed; every expected label is in exactly one of the passed
\* and failed lists; the score is (number passed, number expected).
C4_VerdictAndScore ==
    (score # None) =>
        /\ expected # <<NoneLabel>>
        /\ ValueOf(ret) <=> (failed = <<>>)
        /\ Len(passed) + Len(failed) = Len(expected)
        /\ \A i \in 1..Len(expected) :
              LET k == KeyOf(expected[i])
                  SameKey(a) == KeyOf(a) = k
                  EntryKey(e) == KeyOf(e.name) = k
              IN  Count(expected, SameKey)
                      = Count(passed, EntryKey) + Count(failed, SameKey)
        /\ score = Some(<<Len(passed), Len(expected)>>)

C4_Witness ==
    /\ score = Some(<<1, 2>>)
    /\ ret = Some(FALSE)
    /\ Len(passed) = 1
    /\ Len(failed) = 1

\* C5: with no [FIRED_RULE_MASK] line in the transcript, check() reports
\* the error and returns FAIL for every golden, [NONE] and the empty one
\* included, and compares no label.
C5_NoRuleMaskFails ==
    /\ (pc = "check" /\ ~saw_rule_line) => rule_mask = None
    /\ (pc \in {"main_exit", "exited"} /\ "result" \in opened /\ ~saw_rule_line)
          => /\ ret = Some(FALSE)
             /\ out[Len(out)] = "[ERROR] Could not parse FIRED_RULE_MASK"
             /\ passed = <<>> /\ failed = <<>> /\ idx = 1 /\ score = None

C5_Witness ==
    /\ pc = "main_exit"
    /\ ~saw_rule_line
    /\ saw_ml_line
    /\ expected = <<NoneLabel>>
    /\ ret = Some(FALSE)

\* C6: main() exits with status 0 if and only if check() returned PASS and
\* with status 1 otherwise; with a wrong argument count or a missing golden
\* or result file it exits with status 1 before any file is opened.
C6_ExitStatus ==
    /\ pc # "exited" => exit_code = None
    /\ pc = "exited" =>
          /\ exit_code \in {Some(0), Some(1)}
          /\ exit_code = Some(0) <=> ret = Some(TRUE)
          /\ (argc # 3 \/ ~golden_exists \/ ~result_exists)
                => (exit_code = Some(1) /\ opened = {} /\ ret = None)

C6_Witness ==
    /\ pc = "exited"
    /\ exit_code = Some(0)
    /\ ret = Some(TRUE)
    /\ opened = {"golden", "result"}

\* C7: an expected label whose base name is in neither table is added to
\* the passed list with the "(?)" annotation, for every rule and ML mask.
C7_UnknownLabelLenient ==
    [][(LabelStep /\ KeyOf(expected[idx]) \notin AlertLabel) =>
        /\ passed' = Append(passed, Entry(expected[idx], "(?)"))
        /\ failed' = failed]_vars

C7_Witness ==
    /\ ret = Some(TRUE)
    /\ expected = <<UnknownLabel, Append(UnknownLabel, "ML")>>
    /\ passed = <<Entry(UnknownLabel, "(?)"),
                  Entry(Append(UnknownLabel, "ML"), "(?)")>>
    /\ rule_mask = Some(0)
    /\ ml_mask = Some(0)

\* C8: with a [FIRED_RULE_MASK] line and no [FIRED_ML_MASK] line the ML
\* mask is None, not 0; no label is then satisfied through the ML mask and
\* every _ML label is passed with "(?)", none of them missed.
C8_AbsentMlMaskIsNotZero ==
    (pc \in {"check", "check_loop", "main_exit", "exited"}
            /\ saw_rule_line /\ ~saw_ml_line) =>
        LET MlNote(e) == e.note = "(ML)"
            MlLenient(e) == e.note = "(?)" /\ EndsWithML(e.name)
            done == SubSeq(expected, 1, idx - 1)
        IN  /\ ml_mask = None
            /\ Count(passed, MlNote) = 0
            /\ Count(passed, MlLenient) = Count(done, EndsWithML)

C8_Witness ==
    /\ pc = "exited"
    /\ saw_rule_line /\ ~saw_ml_line
    /\ expected = <<<<"FLASH", "CRASH">>, <<"FLASH", "CRASH", "ML">>>>
    /\ failed = <<<<"FLASH", "CRASH">>>>
    /\ passed = <<Entry(<<"FLASH", "CRASH", "ML">>, "(?)")>>

\* C25: with no EXPECTED= line in the golden file (the expected list is
\* empty) and a parsed rule mask, check() compares nothing and returns PASS
\* with score 0/0, whatever the rule mask is, bit 7 (FLASH_CRASH) included.
C25_EmptyGoldenPasses ==
    (pc \in {"main_exit", "exited"} /\ expected = <<>> /\ rule_mask # None) =>
        /\ ret = Some(TRUE)
        /\ score = Some(<<0, 0>>)
        /\ passed = <<>> /\ failed = <<>>

C25_Witness ==
    /\ pc = "exited"
    /\ expected = <<>>
    /\ rule_mask = Some(255)
    /\ ret = Some(TRUE)
    /\ score = Some(<<0, 0>>)
    /\ exit_code = Some(0)

\* C26: an entry of the passed list carries the "(?)" annotation only if
\* the label's base name is in neither table, or the label has the _ML
\* suffix and the ML mask is unavailable.
C26_LenientOnlyWhenUnknown ==
    \A i \in 1..Len(passed) :
        passed[i].note = "(?)" =>
            \/ KeyOf(passed[i].name) \notin AlertLabel
            \/ EndsWithML(passed[i].name) /\ ml_mask = None

---------------------------------------------------------------------------
(* Properties of the encoders (SpecEnc) *)

\* x clipped to [0, hi]
Clipped(x, hi) == IF x < 0 THEN 0 ELSE IF x > hi THEN hi ELSE x

\* the fields of a wire word
TagOf(w) == w[1] \div 64
PayloadOf(w) == (w[2] % 64) * 64 + (w[1] % 64)

\* C9: encode_price/encode_volume give tag 0/1 and a 12-bit payload equal
\* to the input clipped to [0,4095]; encode_buy/encode_sell give tag 2/3, a
\* payload equal to the input clipped to [0,63] and uio_in = 0; both bytes
\* stay bytes, so nothing wraps and nothing spills into the tag.
C9_EncodersClip ==
    (enc_op \in {"encode_price", "encode_volume", "encode_buy", "encode_sell"}) =>
        LET w == cycles[1]
            x == enc_in[1]
        IN  /\ w[1] \in 0..255 /\ w[2] \in 0..63
            /\ enc_op = "encode_price" => TagOf(w) = 0 /\ PayloadOf(w) = Clipped(x, 4095)
            /\ enc_op = "encode_volume" => TagOf(w) = 1 /\ PayloadOf(w) = Clipped(x, 4095)
            /\ enc_op = "encode_buy" =>
                  TagOf(w) = 2 /\ w[1] % 64 = Clipped(x, 63) /\ w[2] = 0
            /\ enc_op = "encode_sell" =>
                  TagOf(w) = 3 /\ w[1] % 64 = Clipped(x, 63) /\ w[2] = 0

C9_Witness ==
    /\ enc_op = "encode_sell"
    /\ enc_in = <<64>>
    /\ cycles = <<Word(255, 0)>>

\* C10: for every buy pressure in [0,1] bar_to_cycles returns exactly 16
\* words, and its BUY words and SELL words together are 6.
C10_SixteenWordsSixOrders ==
    (enc_op = "bar_to_cycles" /\ enc_in[6] \in 0..PressureDen) =>
        LET IsBuy(w) == TagOf(w) = 2
            IsSell(w) == TagOf(w) = 3
        IN  /\ Len(cycles) = 16
            /\ Count(cycles, IsBuy) + Count(cycles, IsSell) = 6

C10_Witness ==
    /\ enc_op = "bar_to_cycles"
    /\ enc_in[6] = 5
    /\ Len(cycles) = 16
    /\ cycles[7] = Word(138, 0)
    /\ cycles[9] = Word(202, 0)
    /\ cycles[13] = Word(0, 0)

---------------------------------------------------------------------------
(* Properties of df_to_stimulus (SpecStim) *)

\* the scaled prices and the scaled volume of the first bar
FirstBarPayloads ==
    {scaled.open_s[1], scaled.high_s[1], scaled.low_s[1], scaled.close_s[1],
     scaled.vol_s[1]}

\* C11: every warm-up word of the stream carries the first bar's scaled
\* PRICE or VOLUME payload: it is the PRICE word of one of the first bar's
\* scaled prices or the VOLUME word of its scaled volume, and never an idle
\* word.
C11_WarmupCarriesFirstBar ==
    st_pc \in {"bar_loop", "returned"} =>
        \A j \in 1..WarmupCycles :
            /\ all_cycles[j] # encode_idle
            /\ TagOf(all_cycles[j]) \in {0, 1}
            /\ PayloadOf(all_cycles[j]) \in FirstBarPayloads

\* C12: while and after the bars are emitted, the marker of bar i (0-based)
\* is (32 + 16 * i, i), the markers are in bar order, and the stream has
\* 32 + 16 * (bars emitted) words; at the return every bar has its marker
\* and the stream has 32 + 16 * n words.
C12_MarkersDerivable ==
    st_pc \in {"bar_loop", "returned"} =>
        /\ Len(markers) = bar_i
        /\ \A k \in 1..Len(markers) : markers[k] = <<32 + 16 * (k - 1), k - 1>>
        /\ Len(all_cycles) = 32 + 16 * bar_i
        /\ st_pc = "returned" =>
            /\ Len(markers) = Len(df)
            /\ Len(all_cycles) = 32 + 16 * Len(df)

C12_Witness ==
    /\ st_pc = "returned"
    /\ Len(df) = 2
    /\ markers = <<<<32, 0>>, <<48, 1>>>>
    /\ Len(all_cycles) = 64

---------------------------------------------------------------------------
(* Properties of the file writers (SpecWrite) *)

\* a reference reader of the stimulus file, as $readmemh reads it: lines
\* starting with // are skipped, every other line is one hexadecimal number,
\* whose high byte is ui_in and whose low byte is uio_in
IsComment(line) == line[1] = "//"

HexValue(ch) == CHOOSE d \in 0..15 : HexChars[d + 1] = ch

RECURSIVE HexNumber(_)
HexNumber(digits) ==
    IF digits = <<>> THEN 0
    ELSE HexNumber(SubSeq(digits, 1, Len(digits) - 1)) * 16
            + HexValue(digits[Len(digits)])

ReadWord(line) == <<HexNumber(line) \div 256, HexNumber(line) % 256>>

WordLines(lines) == SelectSeq(lines, LAMBDA l : ~IsComment(l))

ReadMemh(lines) ==
    [i \in 1..Len(WordLines(lines)) |-> ReadWord(WordLines(lines)[i])]

StimulusWritten == wr_pc = "closed" /\ wr_in[1] = "write_stimulus_memh"

\* C13: once write_stimulus_memh has written a stream, reading the file
\* back gives the stream again, word for word and in order, and every word
\* line is exactly four hexadecimal digits.
C13_MemhRoundTrip ==
    StimulusWritten =>
        /\ ReadMemh(ValueOf(fs)) = wr_in[2]
        /\ \A i \in 1..Len(WordLines(ValueOf(fs))) :
            /\ Len(WordLines(ValueOf(fs))[i]) = 4
            /\ Range(WordLines(ValueOf(fs))[i]) \subseteq Range(HexChars)

C13_Witness ==
    /\ StimulusWritten
    /\ wr_in[2] = <<encode_price(5), encode_sell(63), encode_idle>>
    /\ ValueOf(fs)[3] = <<"0", "5", "0", "0">>
    /\ ValueOf(fs)[4] = <<"f", "f", "0", "0">>
    /\ ValueOf(fs)[5] = <<"0", "0", "0", "0">>

C15_AtomicWrite ==
    wr_pc = "raised" =>
        fs \in {None, Some(OldFile), Some(LinesOf(wr_in))}

\* C24: the file write_golden wrote for a list of expected alerts, read by
\* check_results.parse_golden, gives that list again, and gives [NONE] for
\* the empty list.
C24_GoldenRoundTrip ==
    wr_pc = "parsed" =>
        expected = (IF wr_in[2] = <<>> THEN <<NoneLabel>> ELSE wr_in[2])

---------------------------------------------------------------------------
(* Properties of the scaling functions (SpecScale) *)

Scalers ==
    {"scale_price", "scale_volume", "finnhub_scale_price",
     "finnhub_scale_volume"}

\* C16: whatever the input (negative, zero, huge), every value returned by
\* one of the four scalers is an integer in [0, 4095].
C16_ScalersInRange ==
    sc_op \in Scalers => \A i \in 1..Len(sc_out) : sc_out[i] \in 0..4095

\* C17: generate_stimuli.scale_price is monotonic within a series: a price
\* below another price of the same series never scales to a greater value.
C17_ScalePriceMonotonic ==
    sc_op = "scale_price" =>
        \A i \in 1..Len(sc_in), j \in 1..Len(sc_in) :
            sc_in[i] < sc_in[j] => sc_out[i] <= sc_out[j]

C17_Witness ==
    /\ sc_op = "scale_price"
    /\ sc_in = <<101, 1000000, 100>>
    /\ sc_out = <<200, 1000, 200>>

\* C18: a flat non-empty price series scales to 200 at every position, and
\* a volume series with median zero is scaled as with median 1: every
\* output is the volume times 100 clipped to [1, 3000].
C18_DegenerateFallback ==
    /\ (sc_op = "scale_price" /\ SeqMin(sc_in) = SeqMax(sc_in)) =>
            \A i \in 1..Len(sc_out) : sc_out[i] = 200
    /\ (sc_op = "scale_volume" /\ DoubleMedian(sc_in) = 0) =>
            \A i \in 1..Len(sc_out) :
                /\ sc_out[i] \in 1..3000
                /\ sc_out[i] = Max(1, Min(3000, sc_in[i] * 100))

C18_Witness ==
    /\ sc_op = "scale_volume"
    /\ sc_in = <<0, 5, 0>>
    /\ sc_out = <<1, 500, 1>>

\* C19: the order quantities of a candle are both in [1, 63]; a bullish
\* candle (close above open) has more buys than sells and a bearish candle
\* more sells than buys, whatever the percent change.
C19_OrderQuantities ==
    sc_op = "candle_orders" =>
        LET o == sc_in[1]
            c == sc_in[2]
            buy == sc_out[1]
            sell == sc_out[2]
        IN  /\ buy \in 1..63
            /\ sell \in 1..63
            /\ c > o => buy > sell
            /\ c < o => sell > buy

C19_Witness ==
    /\ sc_op = "candle_orders"
    /\ sc_in = <<100, 200, 100>>
    /\ sc_out = <<63, 1>>

\* C29: finnhub_fetch.scale_price keeps the direction of a price move: of
\* two dollar prices 0 <= p1 < p2 the lower never scales to the greater
\* value, also across the $500 and $1000 tiers.
C29_FinnhubScalePriceMonotonic ==
    (sc_op = "finnhub_scale_price_twice" /\ 0 <= sc_in[1] /\ sc_in[1] < sc_in[2])
        => sc_out[1] <= sc_out[2]

---------------------------------------------------------------------------
(* Properties of the bar blocks of df_to_stimulus (SpecStim) *)

\* the 16 words of bar k (1-based) in the stream
BarBlock(k) ==
    SubSeq(all_cycles, 32 + 16 * (k - 1) + 1, 32 + 16 * k)

BuyWords(block) == Count(block, LAMBDA w : TagOf(w) = 2)

SellWords(block) == Count(block, LAMBDA w : TagOf(w) = 3)

\* C20: every emitted bar is 4 PRICE words carrying the scaled open, high,
\* low and close in that order, 2 VOLUME words, the BUY words, the SELL
\* words and 4 idle words; no BUY word follows a SELL word; a bar closing
\* above its open has 4 BUY and 2 SELL words, below its open 2 and 4, at
\* its open 3 and 3.
C20_BarWordOrder ==
    st_pc \in {"bar_loop", "returned"} =>
        \A k \in 1..bar_i :
            LET block == BarBlock(k)
                nb == BuyWords(block)
            IN  /\ Len(block) = 16
                /\ \A j \in 1..4 : TagOf(block[j]) = 0
                /\ PayloadOf(block[1]) = scaled.open_s[k]
                /\ PayloadOf(block[2]) = scaled.high_s[k]
                /\ PayloadOf(block[3]) = scaled.low_s[k]
                /\ PayloadOf(block[4]) = scaled.close_s[k]
                /\ \A j \in 5..6 :
                    /\ TagOf(block[j]) = 1
                    /\ PayloadOf(block[j]) = scaled.vol_s[k]
                /\ \A j \in 7..(6 + nb) : TagOf(block[j]) = 2
                /\ \A j \in (7 + nb)..12 : TagOf(block[j]) = 3
                /\ \A j \in 13..16 : block[j] = <<0, 0>>
                /\ \A i \in 1..16, j \in 1..16 :
                    (i < j /\ TagOf(block[i]) = 3) => TagOf(block[j]) # 2
                /\ df[k].Close > df[k].Open =>
                    (nb = 4 /\ SellWords(block) = 2)
                /\ df[k].Close < df[k].Open =>
                    (nb = 2 /\ SellWords(block) = 4)
                /\ df[k].Close = df[k].Open =>
                    (nb = 3 /\ SellWords(block) = 3)

C20_Witness ==
    /\ st_pc = "returned"
    /\ df = <<[Open |-> 100, High |-> 450, Low |-> 50, Close |-> 400,
               Volume |-> 1000]>>
    /\ PayloadOf(all_cycles[33]) < PayloadOf(all_cycles[36])
    /\ PayloadOf(all_cycles[35]) < PayloadOf(all_cycles[33])
    /\ TagOf(all_cycles[42]) = 2
    /\ TagOf(all_cycles[43]) = 3
    /\ all_cycles[48] = <<0, 0>>

---------------------------------------------------------------------------
(* Properties of parse_result on a given file (SpecParse) *)

\* the value of the last line of the transcript that starts with head
LastMask(head) ==
    LET at == {i \in 1..Len(transcript) : transcript[i].head = head}
    IN  IF at = {} THEN None
        ELSE Some(IntBase2(
                transcript[CHOOSE i \in at : \A j \in at : j <= i].last))

\* C27: parse_result returns, for each kind of mask line, the value of the
\* last such line of the file, or None without such a line: a bit set only
\* in an earlier line is not in the returned mask.
C27_LastMaskLineWins ==
    pc = "parse_result_returned" =>
        /\ rule_mask = LastMask("[FIRED_RULE_MASK]")
        /\ ml_mask = LastMask("[FIRED_ML_MASK]")

C27_Witness ==
    /\ pc = "parse_result_returned"
    /\ transcript = <<[head |-> "[FIRED_RULE_MASK]", last |-> OneHot(7)],
                      [head |-> "[FIRED_ML_MASK]", last |-> AllDigits(1)],
                      [head |-> "[FIRED_RULE_MASK]", last |-> OneHot(0)]>>
    /\ rule_mask = Some(1)
    /\ ml_mask = Some(255)

---------------------------------------------------------------------------
(* Properties of generate_stimuli.main (SpecMain) *)

\* C21: every checker command of the run script hands check_results.main
\* the stock's golden file as its golden path (sys.argv[1]) and the stock's
\* result file as its result path (sys.argv[2]).
C21_RunScriptArgumentOrder ==
    gm_pc \in {"write_check_script", "returned"} =>
        \A i \in 1..Len(run_script) :
            /\ main_golden_path(run_script[i])
                    = OutPath(gm_stocks[i], "_golden.txt")
            /\ main_result_path(run_script[i])
                    = OutPath(gm_stocks[i], "_result.txt")

\* C28: a run of main creates or overwrites no file outside the stimuli
\* directory: check_results.py beside the generator stays as the repository
\* has it.
C28_WritesOnlyInOutDir ==
    \A p \in DOMAIN files : p[1] # "stimuli" => files[p] = "repository"

---------------------------------------------------------------------------
(* Properties of the written checker (SpecEmbed) *)

\* C22: every label the free-text parser reports as fired is a label of the
\* AlertLabel enumeration
C22_FiredLabelsInEnumeration == fired \subseteq AlertLabel

\* some marker occurs on some line of the result file
MarkerOccurs ==
    \E i \in 1..Len(em_log) :
        \E key \in DOMAIN alert_map : Contains(em_log[i], key)

\* the labels fired on at least one line of the result file
FiredOnSomeLine == UNION {labels_on_line(em_log[i]) : i \in 1..Len(em_log)}

\* C23: the fired set only grows as lines are scanned, and the checker exits
\* with 0 exactly when the golden is [NONE] and no marker occurs anywhere in
\* the transcript, or the golden is another one and every expected label is
\* fired on at least one line
C23_VerdictStep ==
    /\ fired \subseteq fired'
    /\ (em_pc = "parse_result" /\ em_pc' = "exited") =>
          (em_exit' = Some(0) <=>
              IF em_expected = <<NoneLabel>>
              THEN ~MarkerOccurs
              ELSE \A i \in 1..Len(em_expected) :
                      em_expected[i] \in FiredOnSomeLine)

C23_EmbeddedVerdict == [][C23_VerdictStep]_vars

\* a [NONE] golden has passed a transcript of two lines without a marker
C23_Witness ==
    /\ em_pc = "exited"
    /\ em_expected = <<NoneLabel>>
    /\ Len(em_log) = 2
    /\ em_exit = Some(0)

---------------------------------------------------------------------------
(* Properties of realtime_ws_demo (SpecDemo) *)

\* the data items among the items taken off the queue
DataTaken ==
    {i \in 1..Len(taken) :
        ~IsTagged(taken[i], ERROR) /\ ~IsTagged(taken[i], STATUS)}

\* the test takes a step of its loop (the thread's steps leave these alone)
DemoStep == demo_pc' # demo_pc \/ taken' # taken

\* C30: in every state, one event has been driven per data item taken, got
\* counts the data items whose event is over, a finished run has counted
\* exactly n_msgs of them, an __ERROR__ item taken has aborted the test, and
\* stop_evt is set exactly when the test has finished or aborted
C30_State ==
    /\ Len(events) = Cardinality(DataTaken)
    /\ got = Cardinality(DataTaken) - (IF demo_pc = "event" THEN 1 ELSE 0)
    /\ demo_pc = "finished" => got = n_msgs
    /\ (\E i \in 1..Len(taken) : IsTagged(taken[i], ERROR)) => demo_pc = "raised"
    /\ stop_evt <=> demo_pc \in {"finished", "raised"}

\* C30: every step keeps that, a __STATUS__ item is taken without an event
\* or a count, and the step of the loop that finds the queue empty after the
\* startup timeout with no data yet aborts the test
C30_Step ==
    /\ C30_State'
    /\ (DemoStep /\ demo_pc = "loop" /\ got < n_msgs /\ q_items # <<>>
            /\ IsTagged(Head(q_items), STATUS))
          => (got' = got /\ events' = events /\ demo_pc' = "loop")
    /\ (DemoStep /\ demo_pc = "loop" /\ got < n_msgs /\ q_items = <<>>
            /\ ~first_data /\ elapsed)
          => (demo_pc' = "raised" /\ stop_evt')

C30_DemoCountsDataItems == [][C30_Step]_vars

\* a run of two messages has finished after the two status items and two
\* data items, with the thread still filling the queue
C30_Witness ==
    /\ demo_pc = "finished"
    /\ n_msgs = 2
    /\ Len(taken) = 4
    /\ events = <<2, 3>>
    /\ q_items # <<>>

====
